---- MODULE Spec2Model ----
(***************************************************************************)
(* A model of the headlessforms submission intake and delivery pipeline:   *)
(* the per-source RateLimiter (internal/adapter/middleware/ratelimit.go),  *)
(* the HandleSubmit handler, SubmissionService.Submit and the detached     *)
(* notification callback with its webhook delivery.                        *)
(*                                                                         *)
(* Time is counted in ticks; one rate-limit window is Window ticks.        *)
(***************************************************************************)
EXTENDS Integers, Sequences, FiniteSets, TLC

\* ------------------------------------------------------------------------
\* Bounds of the model
\* ------------------------------------------------------------------------

\* RateLimiter.limit: the burst capacity given to NewRateLimiter
Limit == 2

\* RateLimiter.window, in ticks, given to NewRateLimiter
Window == 2

\* The clock stops advancing here
MaxTime == 5

\* The interval of the cleanup loop (time.Sleep(time.Minute)), in ticks: the
\* default limiters use a window of one minute, so the interval is one window
SweepInterval == Window

\* The most submission records the store holds
MaxSubs == 1

\* Config.RateLimitMax of the spam detector
RateLimitMax == 2

\* The most submissions the detector records for one source
MaxRecorded == 2

\* The requests that are admitted to one endpoint at the same time
Concurrent == 3

\* The goroutines that are inside one call of several steps at the same time
Racing == 2

\* Source keys (client IPs) seen by the limiter
Keys == {"10.0.0.1", "10.0.0.2"}

\* The source whose admissions the history variables record
Observed == "10.0.0.1"

\* ------------------------------------------------------------------------
\* State
\* ------------------------------------------------------------------------

VARIABLES
    now,          \* time.Now(), in ticks
    vheap,        \* the allocated *visitor objects: address -> [tokens, lastReset]
    visitors,     \* RateLimiter.visitors: key -> address of its visitor, 0 if none
    nextSweep,    \* the earliest time the cleanup loop wakes up next
    admitLog,     \* history: the times at which allow(Observed) returned true
    lastCall      \* history: the latest allow(Observed) call, [time, ok]

limiterVars == <<now, vheap, visitors, nextSweep, admitLog, lastCall>>

VARIABLES
    form,             \* the row of the forms table: the registered endpoint
    submissionCount,  \* forms.submission_count of that row
    submissions,      \* the submissions table, in insertion order
    onNewSubmission,  \* SubmissionService.onNewSubmission is set (not nil)
    req,              \* the request being served
    tasks,            \* submission id -> the detached notification work for it
    before,           \* history: the store as it was when the request started
    notified          \* history: the submission ids the callback was started with

pipelineVars == <<form, submissionCount, submissions, onNewSubmission, req, tasks,
                  before, notified>>

VARIABLES
    rateLimits        \* Detector.rateLimits: key -> the recorded submission times

detectorVars == <<rateLimits>>

VARIABLES
    analyzed,         \* the latest call of Detector.Analyze: its arguments and result
    counting,         \* the IncrementSubmissionCount calls of concurrent requests
    clientIP,         \* the latest call of GetClientIP: its request and result
    running,          \* goroutine -> its position inside a call of several steps
    accounts          \* the users row and the password_resets row of one user

callVars == <<analyzed, counting, clientIP, running, accounts>>

vars == <<limiterVars, detectorVars, pipelineVars, callVars>>

\* ------------------------------------------------------------------------
\* RateLimiter
\* ------------------------------------------------------------------------

Addrs == 1..(Cardinality(Keys) + Racing)

NoVisitor == [tokens |-> -1, lastReset |-> -1]

NoCall == [time |-> -1, ok |-> FALSE]

\* A free address of the heap (the allocation made by &visitor{...})
NewAddr(h) == CHOOSE a \in Addrs : h[a] = NoVisitor /\ \A b \in Addrs : h[b] = NoVisitor => a <= b

\* NewRateLimiter: an empty visitors map; the cleanup loop sleeps first
NewRateLimiter ==
    /\ vheap = [a \in Addrs |-> NoVisitor]
    /\ visitors = [k \in Keys |-> 0]
    /\ nextSweep = SweepInterval

\* A mutation of getVisitor: the refill does not restart the window
GetVisitor_KeepsWindowStart(h, vis, ip, t) ==
    IF vis[ip] = 0
    THEN LET a == NewAddr(h)
         IN  [heap |-> [h EXCEPT ![a] = [tokens |-> Limit, lastReset |-> t]],
              visitors |-> [vis EXCEPT ![ip] = a],
              v |-> a]
    ELSE IF t - h[vis[ip]].lastReset > Window
         THEN [heap |-> [h EXCEPT ![vis[ip]].tokens = Limit],
               visitors |-> vis,
               v |-> vis[ip]]
         ELSE [heap |-> h, visitors |-> vis, v |-> vis[ip]]

\* getVisitor(ip) at time t: creates the visitor with full tokens if unseen,
\* refills it and restarts the window if the window has passed; returns the
\* new heap, the new map and the visitor's address
GetVisitor(h, vis, ip, t) ==
    IF vis[ip] = 0
    THEN LET a == NewAddr(h)
         IN  [heap |-> [h EXCEPT ![a] = [tokens |-> Limit, lastReset |-> t]],
              visitors |-> [vis EXCEPT ![ip] = a],
              v |-> a]
    ELSE IF t - h[vis[ip]].lastReset > Window
         THEN [heap |-> [h EXCEPT ![vis[ip]] = [tokens |-> Limit, lastReset |-> t]],
               visitors |-> vis,
               v |-> vis[ip]]
         ELSE [heap |-> h, visitors |-> vis, v |-> vis[ip]]

\* The second critical section of allow: take a token of visitor v if one is left
TakeToken(h, v) ==
    IF h[v].tokens > 0
    THEN [heap |-> [h EXCEPT ![v].tokens = @ - 1], ok |-> TRUE]
    ELSE [heap |-> h, ok |-> FALSE]

\* allow(ip), run without another call or sweep between its two critical sections
Allow(ip) ==
    LET g == GetVisitor(vheap, visitors, ip, now)
        d == TakeToken(g.heap, g.v)
    IN  /\ vheap' = d.heap
        /\ visitors' = g.visitors
        /\ admitLog' = IF ip = Observed /\ d.ok THEN Append(admitLog, now) ELSE admitLog
        /\ lastCall' = IF ip = Observed THEN [time |-> now, ok |-> d.ok] ELSE lastCall
        /\ UNCHANGED <<now, nextSweep>>
        /\ UNCHANGED <<detectorVars, pipelineVars, callVars>>

\* A mutation of the cleanup loop's test: one window instead of two
Stale_AfterOneWindow(h, vis, t) ==
    {k \in Keys : vis[k] # 0 /\ t - h[vis[k]].lastReset > Window}

\* The visitors one pass of the cleanup loop deletes
Stale(h, vis, t) == {k \in Keys : vis[k] # 0 /\ t - h[vis[k]].lastReset > Window * 2}

\* One pass of the cleanup loop, after its sleep
Cleanup ==
    /\ now >= nextSweep
    /\ LET gone == Stale(vheap, visitors, now)
       IN  /\ visitors' = [k \in Keys |-> IF k \in gone THEN 0 ELSE visitors[k]]
           /\ vheap' = [a \in Addrs |->
                          IF \E k \in gone : visitors[k] = a THEN NoVisitor ELSE vheap[a]]
    /\ nextSweep' = now + SweepInterval
    /\ UNCHANGED <<now, admitLog, lastCall>>
    /\ UNCHANGED <<detectorVars, pipelineVars, callVars>>

\* The clock advances
Tick ==
    /\ now < MaxTime
    /\ now' = now + 1
    /\ UNCHANGED <<vheap, visitors, nextSweep, admitLog, lastCall>>
    /\ UNCHANGED <<detectorVars, pipelineVars, callVars>>

\* ------------------------------------------------------------------------
\* Values of Go's interface{} as decoded from JSON, and maps of them
\* ------------------------------------------------------------------------

\* Go strings whose content the code inspects are sequences of characters
S_Ana == <<"A", "n", "a">>

S_abc123 == <<"a", "b", "c", "1", "2", "3">>

S_xyz == <<"x", "y", "z">>

S_42 == <<"4", "2">>

S_7 == <<"7">>

S_user1 == <<"u", "s", "e", "r", "-", "1">>

S_Mozilla == <<"M", "o", "z", "i", "l", "l", "a", "/", "5", ".", "0">>

S_Bearer == <<"B", "e", "a", "r", "e", "r">>

S_bearer == <<"b", "e", "a", "r", "e", "r">>

S_Basic == <<"B", "a", "s", "i", "c">>

\* A key that is not in the map
Absent == [t |-> "absent", v |-> <<>>]

Str(s) == [t |-> "string", v |-> s]

Num(s) == [t |-> "number", v |-> s]

\* A JSON object, by the sequence of the tokens of its content
Obj(s) == [t |-> "object", v |-> s]

\* s, _ := x.(string): the string, or "" when x is no string (or the key is absent)
AsString(x) == IF x.t = "string" THEN x.v ELSE <<>>

\* _, ok := x.(string)
IsString(x) == x.t = "string"

\* delete(m, k)
Delete(m, k) == [m EXCEPT ![k] = Absent]

\* m[k] of a map that may not have the key
Lookup(m, k) == IF k \in DOMAIN m THEN m[k] ELSE Absent

\* p occurs in s at position i
OccursAt(s, p, i) ==
    /\ i + Len(p) - 1 <= Len(s)
    /\ \A j \in 1..Len(p) : s[i + j - 1] = p[j]

\* strings.Contains(s, p), p not empty
Contains(s, p) == \E i \in 1..Len(s) : OccursAt(s, p, i)

\* strings.Count(s, p), p not empty: the occurrences that do not overlap
RECURSIVE CountFrom(_, _, _)
CountFrom(s, p, i) ==
    IF i + Len(p) - 1 > Len(s) THEN 0
    ELSE IF OccursAt(s, p, i) THEN 1 + CountFrom(s, p, i + Len(p))
    ELSE CountFrom(s, p, i + 1)

Count(s, p) == CountFrom(s, p, 1)

LowerChar(c) ==
    CASE c = "A" -> "a" [] c = "B" -> "b" [] c = "C" -> "c" [] c = "D" -> "d"
      [] c = "E" -> "e" [] c = "F" -> "f" [] c = "G" -> "g" [] c = "H" -> "h"
      [] c = "I" -> "i" [] c = "J" -> "j" [] c = "K" -> "k" [] c = "L" -> "l"
      [] c = "M" -> "m" [] c = "N" -> "n" [] c = "O" -> "o" [] c = "P" -> "p"
      [] c = "Q" -> "q" [] c = "R" -> "r" [] c = "S" -> "s" [] c = "T" -> "t"
      [] c = "U" -> "u" [] c = "V" -> "v" [] c = "W" -> "w" [] c = "X" -> "x"
      [] c = "Y" -> "y" [] c = "Z" -> "z" [] OTHER -> c

\* strings.ToLower(s)
ToLower(s) == [i \in DOMAIN s |-> LowerChar(s[i])]

\* The keys of the submitted field map and of the metadata map, in the byte order
\* in which json.Marshal writes the keys of a map
DataKeys == <<"_auth_user_id", "_submission_key", "data", "message", "meta", "name">>

MetaKeys == <<"_auth_user_id", "_client", "_server", "_spam">>

KeySet(keys) == {keys[i] : i \in DOMAIN keys}

\* Maps without entries
EmptyData == [k \in KeySet(DataKeys) |-> Absent]

EmptyMeta == [k \in KeySet(MetaKeys) |-> Absent]

\* The encoding of one value by json.Marshal
EncodeValue(x) ==
    CASE x.t = "string" -> <<"\"">> \o x.v \o <<"\"">>
      [] x.t = "number" -> x.v
      [] OTHER -> <<"{">> \o x.v \o <<"}">>

\* json.Marshal of a map: its present keys in sorted order, each with its encoded value
RECURSIVE MarshalFrom(_, _, _)
MarshalFrom(m, keys, i) ==
    IF i > Len(keys) THEN <<>>
    ELSE IF m[keys[i]] = Absent THEN MarshalFrom(m, keys, i + 1)
    ELSE <<[key |-> keys[i], value |-> EncodeValue(m[keys[i]])]>> \o MarshalFrom(m, keys, i + 1)

Marshal(m, keys) == MarshalFrom(m, keys, 1)

\* The keys of an encoded map
EncodedKeys(raw) == {raw[i].key : i \in DOMAIN raw}

\* The encoded value of key k in an encoded map that has the key
EncodedValue(raw, k) == raw[CHOOSE i \in DOMAIN raw : raw[i].key = k].value

\* ------------------------------------------------------------------------
\* Domain (internal/core/domain/model.go)
\* ------------------------------------------------------------------------

FormStatusActive == "active"

FormStatusInactive == "inactive"

AccessModePublic == "public"

AccessModeWithKey == "with_key"

AccessModePrivate == "private"

SubmissionStatusUnread == "unread"

ErrFormNotFound == "form not found"

ErrInvalidSubmissionKey == "invalid submission key"

ErrAuthRequired == "authentication required for this form"

\* fmt.Errorf("form is not accepting submissions")
ErrNotAccepting == "form is not accepting submissions"

\* fmt.Errorf("invalid form: %w", err)
ErrInvalidForm == "invalid form: database error"

\* fmt.Errorf("save submission: %w", err)
ErrSaveSubmission == "save submission: database error"

\* A nil *domain.Form
NoForm == [id |-> "", publicID |-> "", name |-> "", status |-> "", accessMode |-> "",
           submissionKey |-> <<>>, notifyEmails |-> <<>>, redirectURL |-> "",
           webhookURL |-> "", webhookSecret |-> ""]

\* A nil *domain.Submission
NoSub == [id |-> 0, form_id |-> "", status |-> "", data |-> <<>>, meta |-> <<>>,
          created_at |-> -1]

\* ------------------------------------------------------------------------
\* SubmissionService.Submit (internal/core/service) and the repository
\* ------------------------------------------------------------------------

\* The public identifier and the internal id of the registered form
FormPublicID == "pub-1"

FormID == "form-1"

\* FormRepository.GetByPublicID of the SQLite store: nil when no row has the
\* public id; an empty status reads as active, an empty access mode as public
GetByPublicID(row, publicID) ==
    IF publicID # row.publicID THEN NoForm
    ELSE [row EXCEPT !.status = IF @ = "" THEN FormStatusActive ELSE @,
                     !.accessMode = IF @ = "" THEN AccessModePublic ELSE @]

\* A mutation of the access control: a mode that is not known asks for the key
AccessControl_UnknownModeKeyed(f, data, meta) ==
    CASE f.accessMode \notin {AccessModePublic, AccessModePrivate} ->
           LET submittedKey == AsString(data["_submission_key"])
           IN  IF submittedKey = <<>> \/ submittedKey # f.submissionKey
               THEN [err |-> ErrInvalidSubmissionKey, data |-> data, meta |-> meta]
               ELSE [err |-> "", data |-> Delete(data, "_submission_key"), meta |-> meta]
      [] f.accessMode = AccessModePrivate ->
           IF ~IsString(meta["_auth_user_id"]) \/ AsString(meta["_auth_user_id"]) = <<>>
           THEN [err |-> ErrAuthRequired, data |-> data, meta |-> meta]
           ELSE [err |-> "", data |-> data, meta |-> Delete(meta, "_auth_user_id")]
      [] OTHER -> [err |-> "", data |-> data, meta |-> meta]

\* A mutation of the access control: the submitted key is not compared
AccessControl_AnyKey(f, data, meta) ==
    CASE f.accessMode = AccessModeWithKey ->
           [err |-> "", data |-> Delete(data, "_submission_key"), meta |-> meta]
      [] f.accessMode = AccessModePrivate ->
           IF ~IsString(meta["_auth_user_id"]) \/ AsString(meta["_auth_user_id"]) = <<>>
           THEN [err |-> ErrAuthRequired, data |-> data, meta |-> meta]
           ELSE [err |-> "", data |-> data, meta |-> Delete(meta, "_auth_user_id")]
      [] OTHER -> [err |-> "", data |-> data, meta |-> meta]

\* A mutation of the access control: the admitted key stays in the data
AccessControl_KeepsKey(f, data, meta) ==
    CASE f.accessMode = AccessModeWithKey ->
           LET submittedKey == AsString(data["_submission_key"])
           IN  IF submittedKey = <<>> \/ submittedKey # f.submissionKey
               THEN [err |-> ErrInvalidSubmissionKey, data |-> data, meta |-> meta]
               ELSE [err |-> "", data |-> data, meta |-> meta]
      [] f.accessMode = AccessModePrivate ->
           IF ~IsString(meta["_auth_user_id"]) \/ AsString(meta["_auth_user_id"]) = <<>>
           THEN [err |-> ErrAuthRequired, data |-> data, meta |-> meta]
           ELSE [err |-> "", data |-> data, meta |-> Delete(meta, "_auth_user_id")]
      [] OTHER -> [err |-> "", data |-> data, meta |-> meta]

\* A mutation of the access control: any string _auth_user_id passes, also ""
AccessControl_EmptySubject(f, data, meta) ==
    CASE f.accessMode = AccessModeWithKey ->
           LET submittedKey == AsString(data["_submission_key"])
           IN  IF submittedKey = <<>> \/ submittedKey # f.submissionKey
               THEN [err |-> ErrInvalidSubmissionKey, data |-> data, meta |-> meta]
               ELSE [err |-> "", data |-> Delete(data, "_submission_key"), meta |-> meta]
      [] f.accessMode = AccessModePrivate ->
           IF ~IsString(meta["_auth_user_id"])
           THEN [err |-> ErrAuthRequired, data |-> data, meta |-> meta]
           ELSE [err |-> "", data |-> data, meta |-> Delete(meta, "_auth_user_id")]
      [] OTHER -> [err |-> "", data |-> data, meta |-> meta]

\* The switch on form.AccessMode in Submit: the error, and the data and metadata
\* maps as the switch leaves them
AccessControl(f, data, meta) ==
    CASE f.accessMode = AccessModeWithKey ->
           LET submittedKey == AsString(data["_submission_key"])
           IN  IF submittedKey = <<>> \/ submittedKey # f.submissionKey
               THEN [err |-> ErrInvalidSubmissionKey, data |-> data, meta |-> meta]
               ELSE [err |-> "", data |-> Delete(data, "_submission_key"), meta |-> meta]
      [] f.accessMode = AccessModePrivate ->
           IF ~IsString(meta["_auth_user_id"]) \/ AsString(meta["_auth_user_id"]) = <<>>
           THEN [err |-> ErrAuthRequired, data |-> data, meta |-> meta]
           ELSE [err |-> "", data |-> data, meta |-> Delete(meta, "_auth_user_id")]
      [] OTHER -> [err |-> "", data |-> data, meta |-> meta]

\* What Submit has decided before it builds the record
Rejected(e, data, meta) == [err |-> e, form |-> NoForm, data |-> data, meta |-> meta]

\* A mutation of Admit: a missing form is treated like an inactive one
Admit_NotFoundAsInactive(row, publicID, data, meta, lookupFails) ==
    IF lookupFails THEN Rejected(ErrInvalidForm, data, meta)
    ELSE LET f == GetByPublicID(row, publicID)
         IN  IF f.status # FormStatusActive THEN Rejected(ErrNotAccepting, data, meta)
             ELSE LET ac == AccessControl(f, data, meta)
                  IN  IF ac.err # "" THEN Rejected(ac.err, data, meta)
                      ELSE [err |-> "", form |-> f, data |-> ac.data, meta |-> ac.meta]

\* A mutation of Admit: the access control runs before the status check
Admit_PolicyFirst(row, publicID, data, meta, lookupFails) ==
    IF lookupFails THEN Rejected(ErrInvalidForm, data, meta)
    ELSE LET f == GetByPublicID(row, publicID)
         IN  IF f = NoForm THEN Rejected(ErrFormNotFound, data, meta)
             ELSE LET ac == AccessControl(f, data, meta)
                  IN  IF ac.err # "" THEN Rejected(ac.err, data, meta)
                      ELSE IF f.status # FormStatusActive
                           THEN Rejected(ErrNotAccepting, data, meta)
                           ELSE [err |-> "", form |-> f, data |-> ac.data, meta |-> ac.meta]

\* The checks of Submit, in their order: lookup, not found, not active, access control
Admit(row, publicID, data, meta, lookupFails) ==
    IF lookupFails THEN Rejected(ErrInvalidForm, data, meta)
    ELSE LET f == GetByPublicID(row, publicID)
         IN  IF f = NoForm THEN Rejected(ErrFormNotFound, data, meta)
             ELSE IF f.status # FormStatusActive THEN Rejected(ErrNotAccepting, data, meta)
             ELSE LET ac == AccessControl(f, data, meta)
                  IN  IF ac.err # "" THEN Rejected(ac.err, data, meta)
                      ELSE [err |-> "", form |-> f, data |-> ac.data, meta |-> ac.meta]

\* The record Submit builds in memory; uuid.New() is the next free id
\* A mutation of NewSubmission: the record names the form by its public id
NewSubmission_PublicFormID(f, data, meta, id, t) ==
    [id |-> id, form_id |-> f.publicID, status |-> SubmissionStatusUnread,
     data |-> Marshal(data, DataKeys), meta |-> Marshal(meta, MetaKeys), created_at |-> t]

NewSubmission(f, data, meta, id, t) ==
    [id |-> id, form_id |-> f.id, status |-> SubmissionStatusUnread,
     data |-> Marshal(data, DataKeys), meta |-> Marshal(meta, MetaKeys), created_at |-> t]

\* The body of a request: a JSON document (payload; under "data" and "meta" an
\* object is held in nestedData and nestedMeta) or form fields with their values
NoValues == [k \in KeySet(DataKeys) |-> <<>>]

NoBody == [valid |-> FALSE, payload |-> EmptyData, nestedData |-> EmptyData,
           nestedMeta |-> Absent, postForm |-> NoValues]

NoHTTP == [publicID |-> "", authorization |-> <<>>, contentType |-> <<>>,
           redirectTo |-> "", ip |-> "", userAgent |-> <<>>, body |-> NoBody]

\* An HTTP response not written yet
NoResponse == [status |-> 0, code |-> "", sub |-> NoSub, location |-> ""]

\* No spam score computed
NoSpam == [score |-> -1, is_spam |-> FALSE, flags |-> <<>>, threshold |-> 0]

\* No request is being served. tracked is history: the rate tracker of the
\* detector as the request found it
IdleReq == [pc |-> "idle", via |-> "", publicID |-> "", data |-> EmptyData,
            meta |-> EmptyMeta, form |-> NoForm, fields |-> EmptyData, sub |-> NoSub,
            err |-> "", ctx |-> {}, http |-> NoHTTP, clientMeta |-> Absent,
            spam |-> NoSpam, response |-> NoResponse,
            tracked |-> [k \in Keys |-> <<>>]]

\* The first part of Submit, up to the record built in memory: the next state of
\* the request r that called it
SubmitStart(r, publicID, data, meta, lookupFails) ==
    LET a == Admit(form, publicID, data, meta, lookupFails)
    IN  [r EXCEPT !.pc = IF a.err # "" THEN "return" ELSE "create",
                  !.publicID = publicID, !.data = data, !.meta = meta,
                  !.form = a.form,
                  !.fields = IF a.err # "" THEN EmptyData ELSE a.data,
                  !.sub = IF a.err # "" THEN NoSub
                          ELSE NewSubmission(a.form, a.data, a.meta,
                                             Len(submissions) + 1, now),
                  !.err = a.err]

\* The store as a request finds it
Snapshot == [submissions |-> submissions, submissionCount |-> submissionCount,
             notified |-> notified]

\* Submit called by a caller of the service (as the service tests do): lines up
\* to the record built in memory. lookupFails: the form lookup returns an error
CallSubmit(publicID, data, meta, lookupFails) ==
    /\ req.pc = "idle"
    /\ Len(submissions) < MaxSubs
    /\ req' = SubmitStart([IdleReq EXCEPT !.via = "direct"], publicID, data, meta,
                           lookupFails)
    /\ before' = Snapshot
    /\ UNCHANGED <<form, submissionCount, submissions, onNewSubmission, tasks, notified>>
    /\ UNCHANGED <<limiterVars, detectorVars, callVars>>

\* s.repo.Submission().Create: the single INSERT of the record, which may fail;
\* a failure ends Submit with the wrapped error
SubmitCreate(ok) ==
    /\ req.pc = "create"
    /\ IF ok
       THEN /\ submissions' = Append(submissions, req.sub)
            /\ req' = [req EXCEPT !.pc = "count"]
       ELSE /\ submissions' = submissions
            /\ req' = [req EXCEPT !.pc = "return", !.sub = NoSub, !.err = ErrSaveSubmission]
    /\ UNCHANGED <<form, submissionCount, onNewSubmission, tasks, before, notified>>
    /\ UNCHANGED <<limiterVars, detectorVars, callVars>>

\* A mutation of SubmitIncrement: the error of the increment is returned
SubmitIncrement_ReturnsError(ok) ==
    /\ req.pc = "count"
    /\ submissionCount' = IF ok THEN submissionCount + 1 ELSE submissionCount
    /\ req' = IF ok THEN [req EXCEPT !.pc = "notify"]
              ELSE [req EXCEPT !.pc = "return", !.sub = NoSub, !.err = "increment count"]
    /\ UNCHANGED <<form, submissions, onNewSubmission, tasks, before, notified>>
    /\ UNCHANGED <<limiterVars, detectorVars, callVars>>

\* _ = s.repo.Form().IncrementSubmissionCount: one UPDATE statement, which may
\* fail; its error is dropped
SubmitIncrement(ok) ==
    /\ req.pc = "count"
    /\ submissionCount' = IF ok THEN submissionCount + 1 ELSE submissionCount
    /\ req' = [req EXCEPT !.pc = "notify"]
    /\ UNCHANGED <<form, submissions, onNewSubmission, tasks, before, notified>>
    /\ UNCHANGED <<limiterVars, detectorVars, callVars>>

\* The detached notification work of one submission
NoTask == [pc |-> "none", attempt |-> 0, email |-> "", hook |-> "", fields |-> EmptyData,
           body |-> <<>>, requests |-> <<>>, results |-> <<>>, slept |-> <<>>,
           elapsed |-> 0]

\* The callback just started for a submission with the given fields
NewTask(fields) == [NoTask EXCEPT !.pc = "email", !.fields = fields]

\* A mutation of SubmitNotify: the callback is run by Submit itself, which
\* returns only when the notification work has ended
SubmitNotify_Waits ==
    /\ req.pc = "notify"
    /\ IF onNewSubmission
       THEN /\ tasks[req.sub.id].pc \in {"none", "end"}
            /\ IF tasks[req.sub.id].pc = "none"
               THEN /\ tasks' = [tasks EXCEPT ![req.sub.id] = NewTask(req.fields)]
                    /\ notified' = Append(notified, req.sub.id)
                    /\ req' = req
               ELSE /\ req' = [req EXCEPT !.pc = "return"]
                    /\ UNCHANGED <<tasks, notified>>
       ELSE /\ req' = [req EXCEPT !.pc = "return"]
            /\ UNCHANGED <<tasks, notified>>
    /\ UNCHANGED <<form, submissionCount, submissions, onNewSubmission, before>>
    /\ UNCHANGED <<limiterVars, detectorVars, callVars>>

\* A mutation of SubmitNotify: the callback is started twice
SubmitNotify_Twice ==
    /\ req.pc = "notify"
    /\ IF onNewSubmission
       THEN /\ tasks' = [tasks EXCEPT ![req.sub.id] = NewTask(req.fields)]
            /\ notified' = Append(Append(notified, req.sub.id), req.sub.id)
       ELSE UNCHANGED <<tasks, notified>>
    /\ req' = [req EXCEPT !.pc = "return"]
    /\ UNCHANGED <<form, submissionCount, submissions, onNewSubmission, before>>
    /\ UNCHANGED <<limiterVars, detectorVars, callVars>>

\* if s.onNewSubmission != nil { go s.onNewSubmission(form, submission, data) }
\* and the return of the record: the callback starts as a goroutine of its own
SubmitNotify ==
    /\ req.pc = "notify"
    /\ IF onNewSubmission
       THEN /\ tasks' = [tasks EXCEPT ![req.sub.id] = NewTask(req.fields)]
            /\ notified' = Append(notified, req.sub.id)
       ELSE UNCHANGED <<tasks, notified>>
    /\ req' = [req EXCEPT !.pc = "return"]
    /\ UNCHANGED <<form, submissionCount, submissions, onNewSubmission, before>>
    /\ UNCHANGED <<limiterVars, detectorVars, callVars>>

\* The caller of the service has the result (req.sub, req.err) and goes on
CallReturns ==
    /\ req.pc = "return"
    /\ req.via = "direct"
    /\ req' = IdleReq
    /\ UNCHANGED <<form, submissionCount, submissions, onNewSubmission, tasks, before,
                   notified>>
    /\ UNCHANGED <<limiterVars, detectorVars, callVars>>

\* ------------------------------------------------------------------------
\* spam.Detector
\* ------------------------------------------------------------------------

\* DefaultConfig: ScoreThreshold
ScoreThreshold == 50

\* Config.RateLimitWindow, in ticks
RateLimitWindow == Window

\* DefaultConfig: HoneypotFieldNames
HoneypotFieldNames == <<"_honeypot", "_hp", "website", "url", "fax">>

\* Analyze: the known bot patterns, in their order
BotPatterns ==
    << [name |-> "bot",      chars |-> <<"b", "o", "t">>],
       [name |-> "crawler",  chars |-> <<"c", "r", "a", "w", "l", "e", "r">>],
       [name |-> "spider",   chars |-> <<"s", "p", "i", "d", "e", "r">>],
       [name |-> "curl",     chars |-> <<"c", "u", "r", "l">>],
       [name |-> "wget",     chars |-> <<"w", "g", "e", "t">>],
       [name |-> "python",   chars |-> <<"p", "y", "t", "h", "o", "n">>],
       [name |-> "scrapy",   chars |-> <<"s", "c", "r", "a", "p", "y">>],
       [name |-> "headless", chars |-> <<"h", "e", "a", "d", "l", "e", "s", "s">>] >>

S_http == <<"h", "t", "t", "p">>

S_httpScheme == <<"h", "t", "t", "p", ":", "/", "/">>

S_httpsScheme == <<"h", "t", "t", "p", "s", ":", "/", "/">>

\* 2 * time.Second, in milliseconds
FastSubmission == 2000

\* A mutation of isRateLimited: every time still on the list counts, without
\* the comparison with now - window
IsRateLimited_WholeList(limits, ip, t) ==
    Len(limits[ip]) >= RateLimitMax

\* A mutation of isRateLimited: the times of every source are counted
IsRateLimited_AnySource(limits, ip, t) ==
    \E k \in DOMAIN limits :
        Cardinality({i \in DOMAIN limits[k] : limits[k][i] > t - RateLimitWindow})
            >= RateLimitMax

\* isRateLimited: at least RateLimitMax recorded times after now - window.
\* A key without an entry holds the empty list
IsRateLimited(limits, ip, t) ==
    Cardinality({i \in DOMAIN limits[ip] : limits[ip][i] > t - RateLimitWindow})
        >= RateLimitMax

\* cleanupRateLimits: the recorded times after now - 2 * window are kept
CleanupRateLimits(limits, ip, t) ==
    [limits EXCEPT ![ip] = SelectSeq(@, LAMBDA ts : ts > t - RateLimitWindow * 2)]

\* RecordSubmission: the time is appended, then the old entries are dropped
RecordSubmission(limits, ip, t) ==
    CleanupRateLimits([limits EXCEPT ![ip] = Append(@, t)], ip, t)

\* Analyze, rule 1: every honeypot field holding a non-empty string
HoneypotHits(data) ==
    SelectSeq(HoneypotFieldNames,
              LAMBDA f : IsString(Lookup(data, f)) /\ Lookup(data, f).v # <<>>)

\* Analyze, rule 2: the first bot pattern the lower-cased user agent contains
BotHits(userAgent) ==
    LET lowerUA == ToLower(userAgent)
    IN  SelectSeq(BotPatterns, LAMBDA p : Contains(lowerUA, p.chars))

\* Analyze, rule 5: every field holding a string with a link and more than two
\* occurrences of "http"
LinkHits(data) ==
    {k \in DOMAIN data : /\ IsString(data[k])
                         /\ (Contains(data[k].v, S_httpScheme)
                               \/ Contains(data[k].v, S_httpsScheme))
                         /\ Count(data[k].v, S_http) > 2}

\* Analyze up to the cap: the sum of the rules and their flags
Rules(limits, t, ip, userAgent, data, submissionTime) ==
    LET hp    == HoneypotHits(data)
        bots  == BotHits(userAgent)
        links == Cardinality(LinkHits(data))
        s1 == 100 * Len(hp)
        f1 == [i \in 1..Len(hp) |-> "honeypot_filled:" \o hp[i]]
        s2 == IF userAgent = <<>> THEN 30 ELSE IF bots # <<>> THEN 40 ELSE 0
        f2 == IF userAgent = <<>> THEN <<"empty_user_agent">>
              ELSE IF bots # <<>> THEN <<"bot_user_agent:" \o bots[1].name>>
              ELSE <<>>
        fast == submissionTime > 0 /\ submissionTime < FastSubmission
        s3 == IF fast THEN 25 ELSE 0
        f3 == IF fast THEN <<"fast_submission">> ELSE <<>>
        limited == IsRateLimited(limits, ip, t)
        s4 == IF limited THEN 30 ELSE 0
        f4 == IF limited THEN <<"rate_limited">> ELSE <<>>
        s5 == 15 * links
        f5 == [i \in 1..links |-> "multiple_links"]
    IN  [sum |-> s1 + s2 + s3 + s4 + s5, flags |-> f1 \o f2 \o f3 \o f4 \o f5]

\* A variant of Analyze that leaves the cap out
Analyze_NoCap(limits, t, ip, userAgent, data, submissionTime) ==
    LET r == Rules(limits, t, ip, userAgent, data, submissionTime)
    IN  [score |-> r.sum, is_spam |-> r.sum >= ScoreThreshold,
         flags |-> r.flags, threshold |-> ScoreThreshold]

\* Analyze: the score and the flags of one submission
Analyze(limits, t, ip, userAgent, data, submissionTime) ==
    LET r == Rules(limits, t, ip, userAgent, data, submissionTime)
        score == IF r.sum > 100 THEN 100 ELSE r.sum
    IN  [score |-> score, is_spam |-> score >= ScoreThreshold,
         flags |-> r.flags, threshold |-> ScoreThreshold]

\* The result of Analyze before it was called
NoSpamScore == [score |-> 0, is_spam |-> FALSE, flags |-> <<>>, threshold |-> 0]

\* A call of Analyze that is about to be made; recorded lists the calls of
\* RecordSubmission made before it, by source
AnalyzeCall(ip, userAgent, data, submissionTime) ==
    [called |-> FALSE, ip |-> ip, userAgent |-> userAgent, data |-> data,
     submissionTime |-> submissionTime, limited |-> FALSE, result |-> NoSpamScore,
     recorded |-> [k \in Keys |-> <<>>]]

\* Analyze is called on the shared detector with the arguments at hand
DetectorAnalyze ==
    /\ analyzed # [called |-> FALSE]
    /\ ~analyzed.called
    /\ analyzed' = [analyzed EXCEPT
                       !.called = TRUE,
                       !.limited = IsRateLimited(rateLimits, analyzed.ip, now),
                       !.result = Analyze(rateLimits, now, analyzed.ip,
                                          analyzed.userAgent, analyzed.data,
                                          analyzed.submissionTime)]
    /\ UNCHANGED <<limiterVars, detectorVars, pipelineVars, counting, clientIP, running, accounts>>

\* One call of RecordSubmission on the shared detector
DetectorRecord(ip) ==
    /\ ~analyzed.called
    /\ Len(rateLimits[ip]) < MaxRecorded
    /\ rateLimits' = RecordSubmission(rateLimits, ip, now)
    /\ analyzed' = [analyzed EXCEPT !.recorded[ip] = Append(@, now)]
    /\ UNCHANGED <<limiterVars, pipelineVars, counting, clientIP, running, accounts>>

\* time.Now() advances between the calls on the detector
DetectorTick ==
    /\ ~analyzed.called
    /\ now < MaxTime
    /\ now' = now + 1
    /\ UNCHANGED <<vheap, visitors, nextSweep, admitLog, lastCall>>
    /\ UNCHANGED <<detectorVars, pipelineVars, callVars>>

\* ------------------------------------------------------------------------
\* POST /api/v1/submissions/{form_id}: OptionalAuthMiddleware and HandleSubmit
\* ------------------------------------------------------------------------

S_space == " "

S_tokGood == <<"t", "o", "k", "-", "g", "o", "o", "d">>

S_tokBad == <<"t", "o", "k", "-", "b", "a", "d">>

\* The media types, as sequences of tokens
FormURLEncoded == <<"application/x-www-form-urlencoded">>

MultipartFormData == <<"multipart/form-data">>

\* strings.Split(s, " ")
RECURSIVE SplitFrom(_, _, _)
SplitFrom(s, i, cur) ==
    IF i > Len(s) THEN <<cur>>
    ELSE IF s[i] = S_space THEN <<cur>> \o SplitFrom(s, i + 1, <<>>)
    ELSE SplitFrom(s, i + 1, Append(cur, s[i]))

Split(s) == SplitFrom(s, 1, <<>>)

\* An Authorization header with a scheme and a token
Header(scheme, token) == scheme \o <<S_space>> \o token

\* AuthService.ValidateToken: the claims of a token the service has signed and
\* that has not expired, an error for every other token
ValidateToken(token) ==
    IF token = S_tokGood
    THEN [ok |-> TRUE, userID |-> S_user1, email |-> <<"u", "@", "x">>, role |-> <<"user">>]
    ELSE [ok |-> FALSE, userID |-> <<>>, email |-> <<>>, role |-> <<>>]

\* The context keys of the middleware package: values of type ContextKey
ContextKey(name) == [type |-> "middleware.ContextKey", name |-> name]

UserIDKey == ContextKey("user_id")

EmailKey == ContextKey("email")

RoleKey == ContextKey("role")

\* An untyped string constant used as a context key has type string
StringKey(name) == [type |-> "string", name |-> name]

\* context.WithValue
WithValue(ctx, key, value) == {e \in ctx : e.key # key} \cup {[key |-> key, value |-> value]}

\* ctx.Value(key): keys are equal when their types and their values are equal
Value(ctx, key) ==
    IF \E e \in ctx : e.key = key
    THEN Str((CHOOSE e \in ctx : e.key = key).value)
    ELSE Absent

\* OptionalAuthMiddleware: the context the handler is called with
OptionalAuth(authHeader) ==
    IF authHeader = <<>> THEN {}
    ELSE LET parts == Split(authHeader)
         IN  IF Len(parts) = 2 /\ ToLower(parts[1]) = S_bearer
             THEN LET claims == ValidateToken(parts[2])
                  IN  IF claims.ok
                      THEN WithValue(WithValue(WithValue({}, UserIDKey, claims.userID),
                                               EmailKey, claims.email),
                                     RoleKey, claims.role)
                      ELSE {}
             ELSE {}

\* isHTMLForm
IsHTMLForm(contentType) ==
    Contains(contentType, FormURLEncoded) \/ Contains(contentType, MultipartFormData)

\* HandleSubmit, step 1: the field map and the client metadata of the body;
\* err is the code of the 400 response for a body that does not parse
ParsePayload(rq) ==
    IF IsHTMLForm(rq.contentType)
    THEN IF ~rq.body.valid
         THEN [err |-> "INVALID_FORM", data |-> EmptyData, clientMeta |-> Obj(<<>>)]
         ELSE [err |-> "",
               data |-> [k \in KeySet(DataKeys) |->
                           IF Len(rq.body.postForm[k]) > 0
                           THEN Str(rq.body.postForm[k][1]) ELSE Absent],
               clientMeta |-> Obj(<<>>)]
    ELSE IF ~rq.body.valid
         THEN [err |-> "INVALID_BODY", data |-> EmptyData, clientMeta |-> Obj(<<>>)]
         ELSE IF rq.body.payload["data"].t = "object"
              THEN [err |-> "", data |-> rq.body.nestedData,
                    clientMeta |-> IF rq.body.payload["meta"].t = "object"
                                   THEN rq.body.nestedMeta ELSE Obj(<<>>)]
              ELSE [err |-> "", data |-> rq.body.payload, clientMeta |-> Obj(<<>>)]

\* request.GetServerMeta: what the server reads off the request
GetServerMeta(rq) == Obj(<<"ip:", rq.ip, "user_agent:">> \o rq.userAgent)

\* The spam score as a value of the metadata map
SpamValue(sc) ==
    Obj(<<"score:", ToString(sc.score), "is_spam:", ToString(sc.is_spam), "flags:">>
           \o sc.flags \o <<"threshold:", ToString(sc.threshold)>>)

\* A mutation of BuildMeta: the client metadata is merged into the combined
\* metadata, so that its _auth_user_id stands at the top level
BuildMeta_MergesClientMeta(ctx, serverMeta, clientMeta, spamScore) ==
    LET meta == [EmptyMeta EXCEPT !["_server"] = serverMeta, !["_client"] = clientMeta,
                                  !["_spam"] = SpamValue(spamScore)]
        userID == Value(ctx, StringKey("user_id"))
    IN  IF userID # Absent THEN [meta EXCEPT !["_auth_user_id"] = userID]
        ELSE IF clientMeta.v # <<>> /\ clientMeta.v[1] = "_auth_user_id:"
             THEN [meta EXCEPT !["_auth_user_id"] = Str(S_user1)]
             ELSE meta

\* HandleSubmit, step 4: the combined metadata, and the subject of the context
\* looked up under the string "user_id"
BuildMeta(ctx, serverMeta, clientMeta, spamScore) ==
    LET meta == [EmptyMeta EXCEPT !["_server"] = serverMeta, !["_client"] = clientMeta,
                                  !["_spam"] = SpamValue(spamScore)]
        userID == Value(ctx, StringKey("user_id"))
    IN  IF userID # Absent THEN [meta EXCEPT !["_auth_user_id"] = userID] ELSE meta

\* response.Error
Error(status, code) == [status |-> status, code |-> code, sub |-> NoSub, location |-> ""]

\* HandleDomainError: the response for a domain error, NoResponse for any other
HandleDomainError(err) ==
    CASE err = ErrFormNotFound -> Error(404, "NOT_FOUND")
      [] err = ErrInvalidSubmissionKey -> Error(403, "INVALID_KEY")
      [] err = ErrAuthRequired -> Error(401, "AUTH_REQUIRED")
      [] OTHER -> NoResponse

\* HandleSubmit, steps 5 and 6: the response for the result of Submit
Respond(rq, row, sub, err) ==
    IF err # ""
    THEN IF HandleDomainError(err) # NoResponse THEN HandleDomainError(err)
         ELSE Error(400, "SUBMISSION_FAILED")
    ELSE LET f == GetByPublicID(row, rq.publicID)
             redirectURL == IF rq.redirectTo # "" THEN rq.redirectTo
                            ELSE IF f # NoForm /\ f.redirectURL # "" THEN f.redirectURL
                            ELSE ""
         IN  IF redirectURL # "" /\ IsHTMLForm(rq.contentType)
             THEN [status |-> 302, code |-> "", sub |-> NoSub, location |-> redirectURL]
             ELSE [status |-> 201, code |-> "", sub |-> sub, location |-> ""]

\* The request enters through OptionalAuthMiddleware, which calls the handler
\* with the context it has built
OptionalAuthMiddleware(rq) ==
    /\ req.pc = "idle"
    /\ Len(submissions) < MaxSubs
    /\ Len(rateLimits[rq.ip]) < MaxRecorded
    /\ req' = [IdleReq EXCEPT !.via = "http", !.pc = "parse", !.http = rq,
                              !.publicID = rq.publicID,
                              !.ctx = OptionalAuth(rq.authorization),
                              !.tracked = rateLimits]
    /\ before' = Snapshot
    /\ UNCHANGED <<form, submissionCount, submissions, onNewSubmission, tasks, notified>>
    /\ UNCHANGED <<limiterVars, detectorVars, callVars>>

\* HandleSubmit, step 1: a body that does not parse is answered with 400
HandleSubmitParse ==
    /\ req.pc = "parse"
    /\ LET p == ParsePayload(req.http)
       IN  req' = IF p.err # ""
                  THEN [req EXCEPT !.pc = "responded", !.response = Error(400, p.err)]
                  ELSE [req EXCEPT !.pc = "analyze", !.data = p.data,
                                   !.clientMeta = p.clientMeta]
    /\ UNCHANGED <<form, submissionCount, submissions, onNewSubmission, tasks, before,
                   notified>>
    /\ UNCHANGED <<limiterVars, detectorVars, callVars>>

\* HandleSubmit, step 3: h.spamDetector.Analyze(ip, userAgent, data, 0)
HandleSubmitAnalyze ==
    /\ req.pc = "analyze"
    /\ req' = [req EXCEPT !.pc = "record",
                          !.spam = Analyze(rateLimits, now, req.http.ip,
                                           req.http.userAgent, req.data, 0)]
    /\ UNCHANGED <<form, submissionCount, submissions, onNewSubmission, tasks, before,
                   notified>>
    /\ UNCHANGED <<limiterVars, detectorVars, callVars>>

\* HandleSubmit: h.spamDetector.RecordSubmission(ip), the combined metadata, and
\* the call of Submit up to the record built in memory
HandleSubmitRecord(lookupFails) ==
    /\ req.pc = "record"
    /\ rateLimits' = RecordSubmission(rateLimits, req.http.ip, now)
    /\ req' = SubmitStart(req, req.http.publicID, req.data,
                          BuildMeta(req.ctx, GetServerMeta(req.http), req.clientMeta,
                                    req.spam),
                          lookupFails)
    /\ UNCHANGED <<form, submissionCount, submissions, onNewSubmission, tasks, before,
                   notified>>
    /\ UNCHANGED <<limiterVars, callVars>>

\* HandleSubmit, steps 5 and 6: Submit has returned and the response is written
HandleSubmitRespond ==
    /\ req.pc = "return"
    /\ req.via = "http"
    /\ req' = [req EXCEPT !.pc = "responded",
                          !.response = Respond(req.http, form, req.sub, req.err)]
    /\ UNCHANGED <<form, submissionCount, submissions, onNewSubmission, tasks, before,
                   notified>>
    /\ UNCHANGED <<limiterVars, detectorVars, callVars>>

\* The client has the response
ResponseSent ==
    /\ req.pc = "responded"
    /\ req' = IdleReq
    /\ UNCHANGED <<form, submissionCount, submissions, onNewSubmission, tasks, before,
                   notified>>
    /\ UNCHANGED <<limiterVars, detectorVars, callVars>>

\* ------------------------------------------------------------------------
\* The notification callback (cmd/server/main.go) and the webhook service
\* ------------------------------------------------------------------------

\* webhook.NewService: retries
Retries == 3

\* A mutation of NotifyEmail: a failed send ends the callback
NotifyEmail_StopsOnFailure(id, sent) ==
    /\ tasks[id].pc = "email"
    /\ tasks' = IF Len(form.notifyEmails) > 0 /\ ~sent
                THEN [tasks EXCEPT ![id].pc = "end", ![id].email = "failed",
                                   ![id].hook = "skipped"]
                ELSE [tasks EXCEPT ![id].pc = "trigger",
                                   ![id].email = IF Len(form.notifyEmails) > 0
                                                 THEN "sent" ELSE "skipped"]
    /\ UNCHANGED <<form, submissionCount, submissions, onNewSubmission, req, before,
                   notified>>
    /\ UNCHANGED <<limiterVars, detectorVars, callVars>>

\* The callback's first half: if the form has notification addresses, the email
\* is sent; a failure is logged only
NotifyEmail(id, sent) ==
    /\ tasks[id].pc = "email"
    /\ tasks' = [tasks EXCEPT ![id].pc = "trigger",
                              ![id].email = IF Len(form.notifyEmails) > 0
                                            THEN (IF sent THEN "sent" ELSE "failed")
                                            ELSE "skipped"]
    /\ UNCHANGED <<form, submissionCount, submissions, onNewSubmission, req, before,
                   notified>>
    /\ UNCHANGED <<limiterVars, detectorVars, callVars>>

\* The tokens of a marshalled object, to stand as a value inside a document
RECURSIVE Flatten(_, _)
Flatten(raw, i) ==
    IF i > Len(raw) THEN <<>>
    ELSE <<raw[i].key, ":">> \o raw[i].value \o <<",">> \o Flatten(raw, i + 1)

\* The Payload that TriggerSubmission builds, as json.Marshal writes it in
\* deliver: the fields in the order of the struct
MarshalPayload(f, sub, data) ==
    << [key |-> "event",         value |-> <<"submission.created">>],
       [key |-> "form_id",       value |-> <<f.publicID>>],
       [key |-> "form_name",     value |-> <<f.name>>],
       [key |-> "submission_id", value |-> <<ToString(sub.id)>>],
       [key |-> "timestamp",     value |-> <<ToString(sub.created_at)>>],
       [key |-> "data",          value |-> Flatten(Marshal(data, DataKeys), 1)] >>

\* HMAC-SHA256 as an ideal keyed function: the code of a message under a key is
\* a term that no other message and no other key yields
HmacSHA256(key, msg) == [alg |-> "hmac-sha256", key |-> key, msg |-> msg]

NoMac == [alg |-> "", key |-> "", msg |-> <<>>]

\* No X-Webhook-Signature header
NoSignature == [prefix |-> "", hex |-> NoMac]

\* signPayload: "sha256=" and the hex digits of the code of the body
SignPayload(body, secret) == [prefix |-> "sha256=", hex |-> HmacSHA256(secret, body)]

\* A mutation of SendRequest: the request is signed also with an empty secret
SendRequest_AlwaysSigns(url, secret, body, t) ==
    [url |-> url, body |-> body, event |-> "submission.created", timestamp |-> t,
     signature |-> SignPayload(body, secret)]

\* sendRequest: the POST that is sent, with its headers; t is the time of the
\* delivery's clock that the timestamp header shows
SendRequest(url, secret, body, t) ==
    [url |-> url, body |-> body, event |-> "submission.created", timestamp |-> t,
     signature |-> IF secret # "" THEN SignPayload(body, secret) ELSE NoSignature]

\* webhook.Service.TriggerSubmission: nothing without a webhook URL, else the
\* delivery starts as a goroutine, which marshals the payload once
TriggerSubmission(id) ==
    /\ tasks[id].pc = "trigger"
    /\ tasks' = IF form.webhookURL = ""
                THEN [tasks EXCEPT ![id].pc = "end", ![id].hook = "skipped"]
                ELSE [tasks EXCEPT ![id].pc = "send", ![id].attempt = 1,
                                   ![id].body = MarshalPayload(form, submissions[id],
                                                               tasks[id].fields)]
    /\ UNCHANGED <<form, submissionCount, submissions, onNewSubmission, req, before,
                   notified>>
    /\ UNCHANGED <<limiterVars, detectorVars, callVars>>

\* The outcomes of one HTTP POST of sendRequest: a 2xx status, another status,
\* a transport error (the 30 s timeout of the client included)
Outcomes == {"2xx", "status", "error"}

\* The outcomes tried where the kind of failure makes no difference
PlainOutcomes == {"2xx", "error"}

\* What one turn of the loop of deliver leaves, given the request it has sent
AfterAttempt(t, request, outcome) ==
    LET sent == [t EXCEPT !.requests = Append(@, request), !.results = Append(@, outcome)]
    IN  IF outcome = "2xx" THEN [sent EXCEPT !.pc = "end", !.hook = "delivered"]
        ELSE IF t.attempt < Retries THEN [sent EXCEPT !.pc = "sleep"]
        ELSE [sent EXCEPT !.pc = "end", !.hook = "failed"]

\* A mutation of DeliverAttempt: the payload is marshalled again for every
\* attempt, with the time of the attempt in it
DeliverAttempt_Remarshals(id, outcome) ==
    /\ tasks[id].pc = "send"
    /\ tasks' = [tasks EXCEPT ![id] =
          AfterAttempt(@, SendRequest(form.webhookURL, form.webhookSecret,
                                      MarshalPayload(form,
                                          [submissions[id] EXCEPT !.created_at = tasks[id].elapsed],
                                          tasks[id].fields),
                                      tasks[id].elapsed),
                       outcome)]
    /\ UNCHANGED <<form, submissionCount, submissions, onNewSubmission, req, before,
                   notified>>
    /\ UNCHANGED <<limiterVars, detectorVars, callVars>>

\* One turn of the loop of deliver: sendRequest with the body marshalled at the
\* start, and what follows its outcome
DeliverAttempt(id, outcome) ==
    /\ tasks[id].pc = "send"
    /\ tasks' = [tasks EXCEPT ![id] =
          AfterAttempt(@, SendRequest(form.webhookURL, form.webhookSecret,
                                      tasks[id].body, tasks[id].elapsed),
                       outcome)]
    /\ UNCHANGED <<form, submissionCount, submissions, onNewSubmission, req, before,
                   notified>>
    /\ UNCHANGED <<limiterVars, detectorVars, callVars>>

\* 1 << n
Shl1(n) == 2 ^ n

\* A mutation of DeliverBackoff: every wait is one second
DeliverBackoff_Constant(id) ==
    /\ tasks[id].pc = "sleep"
    /\ tasks' = [tasks EXCEPT ![id].pc = "send", ![id].attempt = @ + 1,
                              ![id].slept = Append(@, 1),
                              ![id].elapsed = @ + 1]
    /\ UNCHANGED <<form, submissionCount, submissions, onNewSubmission, req, before,
                   notified>>
    /\ UNCHANGED <<limiterVars, detectorVars, callVars>>

\* The backoff sleep of deliver, 1 << (attempt-1) seconds, after which the next
\* attempt begins
DeliverBackoff(id) ==
    /\ tasks[id].pc = "sleep"
    /\ tasks' = [tasks EXCEPT ![id].pc = "send", ![id].attempt = @ + 1,
                              ![id].slept = Append(@, Shl1(tasks[id].attempt - 1)),
                              ![id].elapsed = @ + Shl1(tasks[id].attempt - 1)]
    /\ UNCHANGED <<form, submissionCount, submissions, onNewSubmission, req, before,
                   notified>>
    /\ UNCHANGED <<limiterVars, detectorVars, callVars>>

\* ------------------------------------------------------------------------
\* Inputs and specifications
\* ------------------------------------------------------------------------

\* A submitted field map with the field name and the given _submission_key
DataWith(k) == [EmptyData EXCEPT !["name"] = Str(S_Ana), !["_submission_key"] = k]

\* A metadata map with client metadata and the given _auth_user_id
MetaWith(u) == [EmptyMeta EXCEPT !["_client"] = Obj(<<>>), !["_auth_user_id"] = u]

\* The (data, meta) pairs Submit is called with: no key, the right key, a wrong
\* key, a key that is no string; no subject, a subject, an empty subject, a
\* subject that is no string
SubmitInputs ==
    { [data |-> DataWith(k), meta |-> MetaWith(Absent)] :
        k \in {Absent, Str(S_abc123), Str(S_xyz), Num(S_42)} }
    \cup
    { [data |-> DataWith(Absent), meta |-> MetaWith(u)] :
        u \in {Str(S_user1), Str(<<>>), Num(S_7)} }
    \cup
    { [data |-> DataWith(Str(S_abc123)), meta |-> MetaWith(Str(S_user1))] }

\* A JSON body with top-level fields only
FlatBody(payload) == [NoBody EXCEPT !.valid = TRUE, !.payload = payload]

\* A JSON body {"data": {...}, "meta": {...}}
NestedBody(data, clientMeta) ==
    [NoBody EXCEPT !.valid = TRUE,
                   !.payload = [EmptyData EXCEPT !["data"] = Obj(<<"...">>),
                                                 !["meta"] = Obj(<<"...">>)],
                   !.nestedData = data, !.nestedMeta = clientMeta]

\* A form-encoded body; a field may come with several values
FormBody(values) == [NoBody EXCEPT !.valid = TRUE, !.postForm = values]

\* A JSON POST of the field name to the registered form, from a browser
Post == [publicID |-> FormPublicID, authorization |-> <<>>, contentType |-> <<"application/json">>,
         redirectTo |-> "", ip |-> Observed, userAgent |-> S_Mozilla,
         body |-> FlatBody(DataWith(Absent))]

\* The requests sent to the endpoint
HTTPRequests ==
    { Post,
      [Post EXCEPT !.body = FlatBody(DataWith(Str(S_abc123)))],
      [Post EXCEPT !.body = FlatBody([DataWith(Str(S_xyz)) EXCEPT
                                         !["_auth_user_id"] = Str(S_user1)])],
      [Post EXCEPT !.body = NestedBody([DataWith(Str(S_abc123)) EXCEPT
                                           !["_auth_user_id"] = Str(S_user1)],
                                       Obj(<<"_auth_user_id:", "user-1">>))],
      [Post EXCEPT !.body = NoBody],
      [Post EXCEPT !.contentType = FormURLEncoded \o <<";", "charset=utf-8">>,
                   !.redirectTo = "/thanks",
                   !.body = FormBody([NoValues EXCEPT
                                        !["name"] = <<S_Ana, S_xyz>>,
                                        !["_auth_user_id"] = <<S_user1>>,
                                        !["_submission_key"] = <<S_abc123>>])],
      [Post EXCEPT !.authorization = Header(S_Bearer, S_tokGood)],
      [Post EXCEPT !.authorization = Header(S_bearer, S_tokBad)],
      [Post EXCEPT !.authorization = Header(S_Basic, S_tokGood)],
      [Post EXCEPT !.publicID = "nope", !.userAgent = <<>>] }

\* The public identifiers tried: the registered one and an unknown one
PublicIDs == {FormPublicID, "nope"}

\* The rows the forms table may hold for the registered form
FormRows ==
    { [id |-> FormID, publicID |-> FormPublicID, name |-> "Contact", status |-> st,
       accessMode |-> am,
       submissionKey |-> S_abc123, notifyEmails |-> ne, redirectURL |-> "",
       webhookURL |-> wu, webhookSecret |-> ""] :
        st \in {FormStatusActive, FormStatusInactive},
        am \in {AccessModePublic, AccessModeWithKey, AccessModePrivate, "legacy", ""},
        ne \in {<<>>, <<"owner@example.com">>},
        wu \in {"", "https://hooks.example.com/in"} }

IDs == 1..MaxSubs

\* No call of Analyze so far
NoAnalysis == [called |-> FALSE]

\* The requests to one endpoint that are served at the same time
Workers == 1..Concurrent

\* A request that has not called Submit yet. read: the counter as the request
\* has read it (no request does); counted: its increment succeeded; racing: the
\* other requests that were at their increment when it made its own
IdleWorker == [pc |-> "idle", read |-> 0, counted |-> FALSE, racing |-> 0]

\* No call of GetClientIP so far
NoRequestLine == [called |-> FALSE]

\* A goroutine that is in no call
Resting == [pc |-> "idle"]

\* The store before a user has asked for a password reset
NoAccounts == [passwordHash |-> <<>>, usedAt |-> -1, changes |-> 0]

CallsIdle ==
    /\ analyzed = NoAnalysis
    /\ counting = [w \in Workers |-> IdleWorker]
    /\ clientIP = NoRequestLine
    /\ running = [w \in Workers |-> Resting]
    /\ accounts = NoAccounts

\* The service and the store with one registered form and no submissions
PipelineInit ==
    /\ form \in FormRows
    /\ submissionCount = 0
    /\ submissions = <<>>
    /\ onNewSubmission \in BOOLEAN
    /\ req = IdleReq
    /\ tasks = [i \in IDs |-> NoTask]
    /\ before = [submissions |-> <<>>, submissionCount |-> 0, notified |-> <<>>]
    /\ notified = <<>>
    /\ rateLimits = [k \in Keys |-> <<>>]

\* The pipeline at rest, for the specifications that do not run it
PipelineIdle ==
    /\ form = NoForm
    /\ submissionCount = 0
    /\ submissions = <<>>
    /\ onNewSubmission = FALSE
    /\ req = IdleReq
    /\ tasks = [i \in IDs |-> NoTask]
    /\ before = [submissions |-> <<>>, submissionCount |-> 0, notified |-> <<>>]
    /\ notified = <<>>
    /\ rateLimits = [k \in Keys |-> <<>>]

Init ==
    /\ now = 0
    /\ NewRateLimiter
    /\ admitLog = <<>>
    /\ lastCall = NoCall
    /\ PipelineInit
    /\ CallsIdle

Next ==
    \/ \E publicID \in PublicIDs, in \in SubmitInputs, lookupFails \in BOOLEAN :
          CallSubmit(publicID, in.data, in.meta, lookupFails)
    \/ \E ok \in BOOLEAN : SubmitCreate(ok)
    \/ \E ok \in BOOLEAN : SubmitIncrement(ok)
    \/ SubmitNotify
    \/ CallReturns

\* The submission service: calls of Submit served one at a time; the callbacks
\* it starts are followed in HTTPSpec and DeliverySpec
Spec == Init /\ [][Next]_vars

\* The rows of the registered form the endpoint is run against
HTTPFormRows ==
    { r \in FormRows :
        /\ r.accessMode \in {AccessModePublic, AccessModeWithKey, AccessModePrivate}
        /\ (r.notifyEmails = <<>>) = (r.webhookURL = "") }

HTTPInit ==
    /\ Init
    /\ form \in HTTPFormRows

HTTPNext ==
    \/ \E rq \in HTTPRequests : OptionalAuthMiddleware(rq)
    \/ HandleSubmitParse
    \/ HandleSubmitAnalyze
    \/ \E lookupFails \in BOOLEAN : HandleSubmitRecord(lookupFails)
    \/ \E ok \in BOOLEAN : SubmitCreate(ok)
    \/ \E ok \in BOOLEAN : SubmitIncrement(ok)
    \/ SubmitNotify
    \/ HandleSubmitRespond
    \/ ResponseSent
    \/ \E id \in IDs, sent \in BOOLEAN : NotifyEmail(id, sent)
    \/ \E id \in IDs : TriggerSubmission(id)
    \/ \E id \in IDs, outcome \in PlainOutcomes : DeliverAttempt(id, outcome)
    \/ \E id \in IDs : DeliverBackoff(id)

\* The submission endpoint: requests served one at a time through the
\* middleware and the handler, the notification work running beside them
HTTPSpec == HTTPInit /\ [][HTTPNext]_vars

LimiterInit ==
    /\ now = 0
    /\ NewRateLimiter
    /\ admitLog = <<>>
    /\ lastCall = NoCall
    /\ PipelineIdle
    /\ CallsIdle

LimiterNext ==
    \/ \E ip \in Keys : Allow(ip)
    \/ Cleanup
    \/ Tick

\* One RateLimiter serving calls one after the other, with its cleanup loop
LimiterSpec == LimiterInit /\ [][LimiterNext]_vars

\* ------------------------------------------------------------------------
\* Properties of the RateLimiter
\* ------------------------------------------------------------------------

\* The number of admitted allow(Observed) calls in the interval [a, a + Window)
AdmittedIn(a) ==
    Cardinality({i \in DOMAIN admitLog : a <= admitLog[i] /\ admitLog[i] < a + Window})

\* The number of allow(Observed) calls admitted since the visitor's window started
AdmittedSinceReset ==
    Cardinality({i \in DOMAIN admitLog : admitLog[i] >= vheap[visitors[Observed]].lastReset})

\* C1 as stated: no time interval of length Window contains more than Limit
\* admitted allow(key) calls of one source key.
C1_NoIntervalExceedsLimit == \A a \in 0..MaxTime : AdmittedIn(a) <= Limit

\* C1 as amended: the quota is per window of the visitor, which starts when the
\* visitor is created or refilled. Since the start of the current window exactly
\* Limit - tokens calls were admitted (never more than Limit); a call is rejected
\* only when the window's tokens are used up and the window has not passed; and
\* since consecutive window starts are more than Window apart, an interval of
\* length Window meets at most two windows and holds at most 2 * Limit admissions.
C1_QuotaPerWindow ==
    /\ visitors[Observed] # 0 =>
          /\ vheap[visitors[Observed]].tokens \in 0..Limit
          /\ AdmittedSinceReset = Limit - vheap[visitors[Observed]].tokens
    /\ (visitors[Observed] # 0 /\ ~lastCall.ok
            /\ lastCall.time >= vheap[visitors[Observed]].lastReset) =>
          /\ vheap[visitors[Observed]].tokens = 0
          /\ lastCall.time - vheap[visitors[Observed]].lastReset <= Window
    /\ \A a \in 0..MaxTime : AdmittedIn(a) <= 2 * Limit

\* C1 witness: a first window was used up, a call was rejected, the window rolled
\* over, and the second window admitted Limit calls and then rejected one.
C1_Witness ==
    /\ visitors[Observed] # 0
    /\ vheap[visitors[Observed]].lastReset > 0
    /\ vheap[visitors[Observed]].tokens = 0
    /\ Len(admitLog) = 2 * Limit
    /\ AdmittedSinceReset = Limit
    /\ ~lastCall.ok
    /\ lastCall.time >= vheap[visitors[Observed]].lastReset

\* A step of the cleanup loop
Swept == nextSweep' # nextSweep

\* The sweep leaves visitor k as it was
Kept(k) ==
    /\ visitors'[k] = visitors[k]
    /\ visitors[k] # 0 => vheap'[visitors[k]] = vheap[visitors[k]]

Returned == req.via = "direct" /\ req.pc = "return"

\* The form the request names, as the lookup returns it (NoForm: none)
Target == GetByPublicID(form, req.publicID)

\* The form lookup of the request returned a form or nil, not an error
LookupWorked == req.err # ErrInvalidForm

\* The request has left the store, the counter and the callback untouched
NothingChanged == Snapshot = before

\* The submitted _submission_key is missing, no string, empty, or not the key
\* of the form
BadKey(data) ==
    AsString(data["_submission_key"]) = <<>>
        \/ AsString(data["_submission_key"]) # form.submissionKey

\* The metadata carries no non-empty string _auth_user_id
NoSubject(meta) ==
    ~IsString(meta["_auth_user_id"]) \/ AsString(meta["_auth_user_id"]) = <<>>

\* How often the callback was started for the submission id
Invocations(id) == Cardinality({i \in DOMAIN notified : notified[i] = id})

C3_KeyStripped ==
    (req.via = "direct" /\ req.pc \in {"count", "notify", "return"} /\ req.err = ""
        /\ req.form.accessMode = AccessModeWithKey)
    => LET rec == submissions[req.sub.id]
       IN  /\ req.data["_submission_key"] = Str(form.submissionKey)
           /\ "_submission_key" \notin EncodedKeys(rec.data)
           /\ \A k \in KeySet(DataKeys) \ {"_submission_key"} :
                 IF req.data[k] = Absent
                 THEN k \notin EncodedKeys(rec.data)
                 ELSE /\ k \in EncodedKeys(rec.data)
                      /\ EncodedValue(rec.data, k) = EncodeValue(req.data[k])

C3_Witness ==
    /\ Returned
    /\ req.err = ""
    /\ req.form.accessMode = AccessModeWithKey
    /\ req.data["_submission_key"] = Str(S_abc123)
    /\ Len(submissions) = req.sub.id
    /\ EncodedKeys(submissions[req.sub.id].data) = {"name"}
    /\ EncodedValue(submissions[req.sub.id].data, "name") = <<"\"">> \o S_Ana \o <<"\"">>

\* C4: Submit to an active private form with metadata that carries no non-empty
\* string _auth_user_id returns ErrAuthRequired, and no record is created, the
\* counter is not incremented and the callback is not invoked.
C4_NoSubjectRejected ==
    (Returned /\ LookupWorked /\ Target # NoForm
        /\ Target.status = FormStatusActive
        /\ Target.accessMode = AccessModePrivate /\ NoSubject(req.meta))
    => (req.err = ErrAuthRequired /\ req.sub = NoSub /\ NothingChanged)

C4_Witness ==
    /\ Returned
    /\ Target.status = FormStatusActive
    /\ Target.accessMode = AccessModePrivate
    /\ req.meta["_auth_user_id"] = Str(<<>>)
    /\ req.err = ErrAuthRequired
    /\ NothingChanged

\* C6: Submit with a public identifier that no form has returns ErrFormNotFound,
\* which is reported as 404 NOT_FOUND, whatever the data and the metadata are,
\* and no record is created, no counter incremented, no callback invoked.
C6_UnknownFormNotFound ==
    (Returned /\ LookupWorked /\ Target = NoForm)
    => /\ req.err = ErrFormNotFound
       /\ HandleDomainError(req.err) = Error(404, "NOT_FOUND")
       /\ req.sub = NoSub
       /\ NothingChanged

C6_Witness ==
    /\ Returned
    /\ req.publicID = "nope"
    /\ req.err = ErrFormNotFound
    /\ req.data["_submission_key"] = Str(S_abc123)
    /\ req.meta["_auth_user_id"] = Str(S_user1)
    /\ NothingChanged

\* C7: Submit to a form that is not active returns the "not accepting
\* submissions" error and persists nothing, in every access mode and also when
\* the submitted key or subject would satisfy the access control.
C7_InactiveRejectedFirst ==
    (Returned /\ LookupWorked /\ Target # NoForm /\ Target.status # FormStatusActive)
    => (req.err = ErrNotAccepting /\ req.sub = NoSub /\ NothingChanged)

C7_Witness ==
    /\ Returned
    /\ Target.status = FormStatusInactive
    /\ Target.accessMode = AccessModeWithKey
    /\ req.data["_submission_key"] = Str(S_xyz)
    /\ req.err = ErrNotAccepting
    /\ NothingChanged

\* C9: with a callback registered, the callback is started exactly once for
\* every Submit whose write succeeded, after the write (never while Submit is
\* still between the write and its last step, never for an id that is not
\* stored), and not at all by a Submit that ended with an error.
C9_CallbackOncePerWrite ==
    /\ \A i \in DOMAIN notified : notified[i] \in 1..Len(submissions)
    /\ \A id \in 1..Len(submissions) :
          Invocations(id) =
              IF ~onNewSubmission THEN 0
              ELSE IF req.pc \in {"count", "notify"} /\ req.sub.id = id THEN 0
              ELSE 1
    /\ (req.pc = "return" /\ req.err # "") => notified = before.notified

C9_Witness ==
    /\ Returned
    /\ req.err = ""
    /\ onNewSubmission
    /\ Len(submissions) = 1
    /\ notified = <<1>>

\* C10: when the write of the submission succeeds and the increment of the
\* counter fails, Submit returns the persisted record and no error, the record
\* stays in the store, and the callback (if registered) is started.
C10_IncrementFailureSwallowed ==
    (req.via = "direct" /\ req.pc = "return"
        /\ Len(submissions) = Len(before.submissions) + 1
        /\ submissionCount = before.submissionCount)
    => /\ req.err = ""
       /\ req.sub # NoSub
       /\ submissions[req.sub.id] = req.sub
       /\ onNewSubmission => Invocations(req.sub.id) = 1

C10_Witness ==
    /\ Returned
    /\ req.err = ""
    /\ Len(submissions) = 1
    /\ submissions[1] = req.sub
    /\ submissionCount = 0
    /\ onNewSubmission
    /\ notified = <<1>>

\* C18: Submit to an active form whose access mode is neither with_key nor
\* private (public, empty, or a mode that is not known) admits the request
\* whatever key and subject come with it, and leaves _submission_key in the
\* data and _auth_user_id in the metadata: the record and the callback get
\* both maps as they were submitted.
C18_OtherModesAdmitUnchecked ==
    (Returned /\ LookupWorked /\ Target # NoForm
        /\ Target.status = FormStatusActive
        /\ Target.accessMode \notin {AccessModeWithKey, AccessModePrivate})
    => /\ req.err \in {"", ErrSaveSubmission}
       /\ req.err = "" =>
             /\ submissions[req.sub.id] = req.sub
             /\ req.sub.data = Marshal(req.data, DataKeys)
             /\ req.sub.meta = Marshal(req.meta, MetaKeys)
             /\ req.fields = req.data
             /\ req.data["_submission_key"] # Absent
                   => "_submission_key" \in EncodedKeys(req.sub.data)
             /\ req.meta["_auth_user_id"] # Absent
                   => "_auth_user_id" \in EncodedKeys(req.sub.meta)

\* A form with a mode that is not known has taken a submission with a wrong key
\* and one with a subject, and has stored the key and the subject
C18_Witness ==
    /\ Returned
    /\ req.err = ""
    /\ form.status = FormStatusActive
    /\ form.accessMode = "legacy"
    /\ Len(submissions) = 1
    /\ \/ /\ req.data["_submission_key"] = Str(S_xyz)
          /\ EncodedValue(submissions[1].data, "_submission_key")
                = EncodeValue(Str(S_xyz))
       \/ /\ req.meta["_auth_user_id"] = Str(S_user1)
          /\ EncodedValue(submissions[1].meta, "_auth_user_id")
                = EncodeValue(Str(S_user1))

\* Submit has returned a record to the caller of the service
ReturnedRecord == Returned /\ req.err = ""

\* C21 as stated: every Submit that returns a record returns one whose form_id
\* is the internal id of the form, whose status is unread and whose data is the
\* submitted field map; that record, and no other, has been added to the store.
C21_RecordAsSubmitted ==
    ReturnedRecord =>
        /\ req.sub.form_id = form.id
        /\ req.sub.status = SubmissionStatusUnread
        /\ req.sub.data = Marshal(req.data, DataKeys)
        /\ submissions = Append(before.submissions, req.sub)

\* C21 as amended: the data of the record is the submitted field map without
\* _submission_key when the form is a with_key form, and the submitted field
\* map as it is for every other form.
C21_RecordAsAdmitted ==
    ReturnedRecord =>
        /\ req.sub.form_id = form.id
        /\ req.sub.status = SubmissionStatusUnread
        /\ req.sub.data =
              Marshal(IF req.form.accessMode = AccessModeWithKey
                      THEN Delete(req.data, "_submission_key") ELSE req.data, DataKeys)
        /\ submissions = Append(before.submissions, req.sub)

\* A with_key form has stored one record for a call that carried the key
C21_Witness ==
    /\ ReturnedRecord
    /\ form.accessMode = AccessModeWithKey
    /\ req.data = DataWith(Str(S_abc123))
    /\ req.sub.form_id = FormID
    /\ req.sub.status = "unread"
    /\ req.sub.data = Marshal(DataWith(Absent), DataKeys)
    /\ submissions = <<req.sub>>

\* ------------------------------------------------------------------------
\* Properties of the submission endpoint
\* ------------------------------------------------------------------------

\* Submit, called by HandleSubmit, has returned
ReturnedToHandler == req.via = "http" /\ req.pc = "return"

\* Submit was called for the request of the handler
SubmitCalled == req.via = "http" /\ req.pc \in {"create", "count", "notify", "return"}

\* C29: a request without a valid session is never admitted to a private
\* endpoint by its body. Whatever the JSON or form body holds, an _auth_user_id
\* at the top level, inside data or inside meta included, HandleSubmit puts
\* the client metadata under _client only, Submit sees no _auth_user_id, and
\* for an active private form it returns ErrAuthRequired and stores nothing.
C29_BodyCannotAuthenticate ==
    (SubmitCalled /\ Value(req.ctx, UserIDKey) = Absent)
    => /\ req.meta["_auth_user_id"] = Absent
       /\ req.meta["_client"] = req.clientMeta
       /\ (LookupWorked /\ Target # NoForm /\ Target.status = FormStatusActive
             /\ Target.accessMode = AccessModePrivate)
          => /\ req.pc = "return"
             /\ req.err = ErrAuthRequired
             /\ NothingChanged

\* C29 witness: a body with _auth_user_id inside data and inside meta, sent
\* without a session to an active private form, was answered ErrAuthRequired
C29_Witness ==
    /\ SubmitCalled
    /\ req.ctx = {}
    /\ req.data["_auth_user_id"] = Str(S_user1)
    /\ req.clientMeta = Obj(<<"_auth_user_id:", "user-1">>)
    /\ Target # NoForm
    /\ Target.status = FormStatusActive
    /\ Target.accessMode = AccessModePrivate
    /\ req.err = ErrAuthRequired

\* C29 witness for a form body and a JSON body with the field at the top level
C29_FlatBodyRejected ==
    /\ SubmitCalled
    /\ req.data["_auth_user_id"] = Str(S_user1)
    /\ req.clientMeta = Obj(<<>>)
    /\ Target # NoForm
    /\ Target.accessMode = AccessModePrivate
    /\ req.err = ErrAuthRequired

\* C5: a POST to an active private form with a bearer token that
\* OptionalAuthMiddleware accepts is admitted: the user id of the token reaches
\* Submit as _auth_user_id, Submit does not answer ErrAuthRequired, and the
\* record it persists has no _auth_user_id in its metadata.
C5_BearerAdmitted ==
    (ReturnedToHandler /\ LookupWorked /\ Target # NoForm
        /\ Target.status = FormStatusActive
        /\ Target.accessMode = AccessModePrivate
        /\ Value(req.ctx, UserIDKey) # Absent)
    => /\ req.meta["_auth_user_id"] = Value(req.ctx, UserIDKey)
       /\ req.err # ErrAuthRequired
       /\ req.err = "" =>
             /\ submissions[req.sub.id] = req.sub
             /\ "_auth_user_id" \notin EncodedKeys(req.sub.meta)

\* The handler has answered a request whose record the store failed to write
WriteFailed == req.via = "http" /\ req.pc = "responded" /\ req.err = ErrSaveSubmission

\* C17: when the write of the submission record fails, the write is not tried
\* again (the store holds what it held, nothing is counted and no callback
\* starts), and the endpoint answers with a server error of the 5xx class, not
\* with one of the 4xx answers it gives for not-found, rejected and invalid
\* requests.
C17_WriteFailureIsServerError ==
    WriteFailed =>
        /\ NothingChanged
        /\ req.response.status \in 500..599

\* The errors of the access policy: not found, inactive, bad key, no subject
PolicyErrors == {ErrFormNotFound, ErrNotAccepting, ErrInvalidSubmissionKey,
                 ErrAuthRequired}

\* C22: a request that the access policy rejects (not found, inactive, bad or
\* missing key, authentication required) has not been scored by the detector
\* and has not been recorded in its rate tracker: the tracker is as the request
\* found it.
C22_RejectedNeverScored ==
    (req.via = "http" /\ req.pc \in {"return", "responded"} /\ req.err \in PolicyErrors)
        => /\ req.spam = NoSpam
           /\ rateLimits = req.tracked

\* C8: Submit returns the persisted record in the very step that starts the
\* callback as a task of its own, so before any delivery step; no step of the
\* notification work changes what Submit has returned or what the handler
\* answers; and the response to an admitted request is 201 with the persisted
\* record, or the 302 redirect, whatever the state of the delivery.
C8_ReturnsWithoutWaiting ==
    [][ /\ (req.pc = "notify" /\ req'.pc # "notify") =>
              /\ req'.pc = "return"
              /\ req'.err = ""
              /\ req'.sub = submissions[req.sub.id]
              /\ onNewSubmission => tasks'[req.sub.id] = NewTask(req.fields)
        /\ (req.pc = "notify" /\ req'.pc = "notify") =>
              tasks'[req.sub.id] = tasks[req.sub.id]
        /\ (tasks' # tasks /\ req.pc # "notify") => req' = req
        /\ (req.pc = "return" /\ req'.pc = "responded" /\ req.err = "") =>
              \/ req'.response = [status |-> 201, code |-> "",
                                  sub |-> submissions[req.sub.id], location |-> ""]
              \/ /\ req'.response.status = 302
                 /\ req'.response.location # ""
      ]_vars

C8_Witness ==
    /\ req.via = "http"
    /\ req.pc = "responded"
    /\ req.response.status = 201
    /\ req.response.sub = submissions[req.sub.id]
    /\ tasks[req.sub.id].pc = "sleep"
    /\ tasks[req.sub.id].attempt = 2

\* ------------------------------------------------------------------------
\* The notification work on its own
\* ------------------------------------------------------------------------

\* The submissions whose notification work is followed
Deliveries == 2

\* The forms whose notifications are followed: active, with or without
\* addresses, webhook URL and signing secret
DeliveryFormRows ==
    { [r EXCEPT !.webhookSecret = s] :
        r \in {x \in FormRows : x.status = FormStatusActive
                                  /\ x.accessMode = AccessModePublic},
        s \in {"", "s3cret"} }

\* The fields of the submission with the given id
DeliveryData(id) ==
    IF id % 2 = 1 THEN DataWith(Absent)
    ELSE [DataWith(Absent) EXCEPT !["message"] = Str(S_xyz)]

\* Submit has stored the submissions, counted them and started the callback for
\* each of them
DeliveryInit ==
    /\ now = 0
    /\ NewRateLimiter
    /\ admitLog = <<>>
    /\ lastCall = NoCall
    /\ form \in DeliveryFormRows
    /\ submissions = [id \in 1..Deliveries |->
                         NewSubmission(form, DeliveryData(id),
                                       MetaWith(Absent), id, 0)]
    /\ submissionCount = Deliveries
    /\ onNewSubmission = TRUE
    /\ req = IdleReq
    /\ tasks = [id \in 1..Deliveries |-> NewTask(DeliveryData(id))]
    /\ before = [submissions |-> <<>>, submissionCount |-> 0, notified |-> <<>>]
    /\ notified = [id \in 1..Deliveries |-> id]
    /\ rateLimits = [k \in Keys |-> <<>>]
    /\ CallsIdle

DeliveryNext ==
    \/ \E id \in 1..Deliveries, sent \in BOOLEAN : NotifyEmail(id, sent)
    \/ \E id \in 1..Deliveries : TriggerSubmission(id)
    \/ \E id \in 1..Deliveries, outcome \in PlainOutcomes : DeliverAttempt(id, outcome)
    \/ \E id \in 1..Deliveries : DeliverBackoff(id)

\* The callbacks of stored submissions running side by side
DeliverySpec == DeliveryInit /\ [][DeliveryNext]_vars

\* The callback of the first submission, followed alone
OneDeliveryNext ==
    \/ \E sent \in BOOLEAN : NotifyEmail(1, sent)
    \/ TriggerSubmission(1)
    \/ \E outcome \in Outcomes : DeliverAttempt(1, outcome)
    \/ DeliverBackoff(1)

\* The goroutine of the callback and the goroutine of the delivery are scheduled
\* again and again: the email send returns, every POST returns (the client has
\* a timeout of 30 s), every sleep ends
OneDeliveryFairness ==
    /\ WF_vars(\E sent \in BOOLEAN : NotifyEmail(1, sent))
    /\ WF_vars(TriggerSubmission(1))
    /\ WF_vars(\E outcome \in Outcomes : DeliverAttempt(1, outcome))
    /\ WF_vars(DeliverBackoff(1))

OneDeliverySpec == DeliveryInit /\ [][OneDeliveryNext]_vars /\ OneDeliveryFairness

\* ------------------------------------------------------------------------
\* Properties of the notification work
\* ------------------------------------------------------------------------

\* The waits of a delivery that has slept n times: 1 s, 2 s, ...
Backoffs(n) == [i \in 1..n |-> 2 ^ (i - 1)]

\* The attempts of one delivery, as far as it has come, are in order
AttemptsInOrder(t) ==
    LET n == Len(t.requests)
    IN  /\ n <= 3
        /\ Len(t.results) = n
        /\ \A k \in 1..(n - 1) : t.results[k] # "2xx"
        /\ t.slept = Backoffs(Len(t.slept))
        /\ Len(t.slept) = IF t.pc = "send" THEN n ELSE IF n = 0 THEN 0 ELSE n - 1
        /\ (t.pc = "send") => (t.attempt = n + 1)
        /\ (t.pc = "sleep") => (t.results[n] # "2xx" /\ n < 3)
        /\ (t.pc = "end" /\ t.hook = "failed") =>
              (n = 3 /\ \A k \in 1..3 : t.results[k] # "2xx" /\ t.slept = <<1, 2>>)
        /\ (t.pc = "end" /\ t.hook = "delivered") => t.results[n] = "2xx"
        /\ (t.pc = "end" /\ n > 0) => t.hook \in {"failed", "delivered"}

AllRequests == UNION {{tasks[id].requests[i] : i \in DOMAIN tasks[id].requests} :
                          id \in 1..Deliveries}

\* C12: a webhook request carries the X-Webhook-Signature header exactly when
\* the signing secret of the form is not empty; the value is then "sha256="
\* followed by the hex HMAC-SHA256, under that secret, of exactly the body of
\* the request, so that requests with different bodies carry different
\* signatures.
C12_SignatureOverBody ==
    /\ \A r \in AllRequests :
          /\ (r.signature # NoSignature) <=> (form.webhookSecret # "")
          /\ (form.webhookSecret # "") =>
                /\ r.signature.prefix = "sha256="
                /\ r.signature.hex = HmacSHA256(form.webhookSecret, r.body)
    /\ \A r1, r2 \in AllRequests :
          (form.webhookSecret # "" /\ r1.body # r2.body) => r1.signature # r2.signature

C12_Witness ==
    /\ form.webhookSecret = "s3cret"
    /\ Len(tasks[1].requests) = 2
    /\ Len(tasks[2].requests) = 1
    /\ tasks[1].requests[2].signature = SignPayload(tasks[1].body, "s3cret")
    /\ tasks[1].requests[1].signature # tasks[2].requests[1].signature

\* C13: the payload of a delivery is marshalled once, and every attempt sends
\* that same body; between the attempts only the timestamp header differs (and
\* the signature is computed again over the same body).
C13_SameBodyEveryAttempt ==
    \A id \in 1..Deliveries :
        LET t == tasks[id]
        IN  \A i \in DOMAIN t.requests :
               /\ t.body = MarshalPayload(form, submissions[id], t.fields)
               /\ t.requests[i].body = t.body
               /\ t.requests[i].body = t.requests[1].body
               /\ t.requests[i] = [t.requests[1] EXCEPT
                                     !.timestamp = t.requests[i].timestamp]
               /\ t.requests[i].timestamp =
                     IF i = 1 THEN 0 ELSE IF i = 2 THEN 1 ELSE 3

C13_Witness ==
    /\ Len(tasks[2].requests) = 3
    /\ tasks[2].requests[3].body = tasks[2].requests[1].body
    /\ tasks[2].requests[3].timestamp = 3
    /\ tasks[2].requests[1].timestamp = 0
    /\ form.webhookSecret = "s3cret"
    /\ tasks[2].requests[3].signature = tasks[2].requests[1].signature

\* The two fan-outs of one callback, as far as it has come
FanOut(t) ==
    /\ (t.pc \notin {"none", "email"}) =>
          /\ t.email \in {"sent", "failed", "skipped"}
          /\ (t.email = "skipped") <=> (Len(form.notifyEmails) = 0)
    /\ (t.pc \in {"send", "sleep"}) => form.webhookURL # ""
    /\ (t.pc = "end") =>
          /\ (t.hook = "skipped") <=> (form.webhookURL = "")
          /\ (t.requests # <<>>) <=> (form.webhookURL # "")
    /\ (t.requests # <<>>) => form.webhookURL # ""

\* C19: for each persisted submission the email is sent exactly when the form
\* has a notification address, and a webhook delivery is started exactly when
\* the form has a webhook URL; a failed email neither prevents nor alters the
\* webhook delivery, and no step of the webhook delivery touches the outcome
\* of the email.
C19_IndependentFanOuts ==
    /\ [](\A id \in 1..Deliveries : FanOut(tasks[id]))
    /\ [][\A id \in 1..Deliveries :
            /\ (tasks[id].pc = "email" /\ tasks'[id] # tasks[id]) =>
                  tasks'[id] = [tasks[id] EXCEPT !.pc = "trigger",
                                                 !.email = tasks'[id].email]
            /\ (tasks[id].pc = "trigger" /\ tasks'[id] # tasks[id]) =>
                  /\ tasks'[id].pc = IF form.webhookURL = "" THEN "end" ELSE "send"
                  /\ tasks'[id].body =
                        IF form.webhookURL = "" THEN <<>>
                        ELSE MarshalPayload(form, submissions[id], tasks[id].fields)
            /\ (tasks[id].pc # "email") => tasks'[id].email = tasks[id].email
        ]_vars

C19_Witness ==
    /\ Len(form.notifyEmails) > 0
    /\ form.webhookURL # ""
    /\ tasks[1].pc = "end"
    /\ tasks[1].email = "failed"
    /\ tasks[1].hook = "delivered"
    /\ tasks[2].pc = "end"
    /\ tasks[2].email = "sent"
    /\ tasks[2].hook = "failed"


\* ------------------------------------------------------------------------
\* The spam detector on its own
\* ------------------------------------------------------------------------

\* A text with three links
S_links == S_httpScheme \o <<"a", " ">> \o S_httpsScheme \o <<"b", " ">>
             \o S_httpScheme \o <<"c">>

S_Googlebot == <<"G", "o", "o", "g", "l", "e", "b", "o", "t", "/", "2", ".", "1">>

\* The fields of the analyzed maps
SpamKeys == KeySet(HoneypotFieldNames) \cup {"message", "name"}

\* The honeypot fields a client fills with text
FilledSets == {{}, {"website", "url"}, KeySet(HoneypotFieldNames)}

\* A honeypot field sent with a value that is no text, or with the empty text
OddFields == {[field |-> "", value |-> Absent],
              [field |-> "website", value |-> Str(<<>>)],
              [field |-> "fax", value |-> Num(S_42)],
              [field |-> "url", value |-> Str(S_links)]}

Messages == {Str(S_xyz), Str(S_links)}

SpamData(filled, odd, message) ==
    [k \in SpamKeys |->
        IF k = "message" THEN message
        ELSE IF k = "name" THEN Str(S_Ana)
        ELSE IF k = odd.field THEN odd.value
        ELSE IF k \in filled THEN Str(S_xyz)
        ELSE Absent]

SpamInputs == {SpamData(filled, odd, message) :
                  filled \in FilledSets, odd \in OddFields, message \in Messages}

UserAgents == {<<>>, S_Mozilla, S_Googlebot}

\* Fill times in milliseconds: not given, and fast
SubmissionTimes == {0, 1000}

DetectorInit ==
    /\ now = 0
    /\ NewRateLimiter
    /\ admitLog = <<>>
    /\ lastCall = NoCall
    /\ PipelineIdle
    /\ analyzed \in {AnalyzeCall(ip, userAgent, data, submissionTime) :
                         ip \in Keys, userAgent \in UserAgents, data \in SpamInputs,
                         submissionTime \in SubmissionTimes}
    /\ counting = [w \in Workers |-> IdleWorker]
    /\ clientIP = NoRequestLine
    /\ running = [w \in Workers |-> Resting]
    /\ accounts = NoAccounts

DetectorNext ==
    \/ DetectorAnalyze
    \/ DetectorRecord(Observed)
    \/ DetectorTick

\* One detector and one submission: Analyze is applied to it at any time, while
\* submissions of the observed source are recorded and time passes
DetectorSpec == DetectorInit /\ [][DetectorNext]_vars

\* A field that is present with a value that is not empty
Filled(x) == x.t # "absent" /\ x.v # <<>>

\* C14: whenever at least one honeypot field of the analyzed data is present
\* and not empty, Analyze returns is_spam = true, whatever the user agent, the
\* rate state of the source and the other fields are.
C14_HoneypotIsSpam ==
    (/\ analyzed.called
     /\ \E f \in KeySet(HoneypotFieldNames) : Filled(Lookup(analyzed.data, f)))
        => analyzed.result.is_spam

\* C15: for every input of Analyze the score is an integer from 0 to 100 and
\* is_spam is true exactly when the score reaches the configured threshold.
C15_ScoreCappedAndThreshold ==
    analyzed.called =>
        /\ analyzed.result.score \in 0..100
        /\ analyzed.result.is_spam <=> (analyzed.result.score >= ScoreThreshold)
        /\ analyzed.result.threshold = ScoreThreshold

\* The recordings of the analyzed source made less than a window before Analyze
RecordedInWindow ==
    {i \in DOMAIN analyzed.recorded[analyzed.ip] :
        analyzed.recorded[analyzed.ip][i] > now - RateLimitWindow}

\* The sum of the rules other than rule 4: the rules on a detector that has
\* recorded nothing
OtherRules ==
    Rules([k \in Keys |-> <<>>], now, analyzed.ip, analyzed.userAgent,
          analyzed.data, analyzed.submissionTime).sum

C24_OtherSourceRecorded ==
    /\ analyzed.called
    /\ analyzed.ip # Observed
    /\ Len(analyzed.recorded[Observed]) >= RateLimitMax
    /\ IsRateLimited(rateLimits, Observed, now)
    /\ analyzed.result.flags = <<>>

\* The flags multiple_links of the analysis
LinkFlags ==
    {i \in DOMAIN analyzed.result.flags : analyzed.result.flags[i] = "multiple_links"}

\* C25: rule 5 fires at most once per call of Analyze. If any string field
\* holds more than two occurrences of "http", the score gains exactly 15 and
\* the flags hold exactly one multiple_links, however many fields qualify; if
\* no field qualifies, nothing is added.
C25_LinksRuleFiresOnce ==
    analyzed.called =>
        LET qualifies == \E k \in DOMAIN analyzed.data :
                            /\ IsString(analyzed.data[k])
                            /\ Count(analyzed.data[k].v, S_http) > 2
            r    == Rules(rateLimits, now, analyzed.ip, analyzed.userAgent,
                          analyzed.data, analyzed.submissionTime)
            rest == r.sum - 15 * Cardinality(LinkHits(analyzed.data))
            sum  == rest + (IF qualifies THEN 15 ELSE 0)
        IN  /\ Cardinality(LinkFlags) = IF qualifies THEN 1 ELSE 0
            /\ analyzed.result.score = IF sum > 100 THEN 100 ELSE sum

\* Every rule fires at once, all five honeypot fields among them
C15_Witness ==
    /\ analyzed.called
    /\ analyzed.limited
    /\ Len(HoneypotHits(analyzed.data)) = 5
    /\ analyzed.result.flags =
          << "honeypot_filled:_honeypot", "honeypot_filled:_hp",
             "honeypot_filled:website", "honeypot_filled:url", "honeypot_filled:fax",
             "bot_user_agent:bot", "fast_submission", "rate_limited",
             "multiple_links" >>
    /\ analyzed.result.score = 100
    /\ analyzed.result.is_spam


\* ------------------------------------------------------------------------
\* Concurrent calls of Submit on one endpoint
\* ------------------------------------------------------------------------

\* Submit admits the request of worker w (the form is active and open)
WorkerAdmit(w) ==
    /\ counting[w].pc = "idle"
    /\ Admit(form, FormPublicID, DataWith(Absent), MetaWith(Absent), FALSE).err = ""
    /\ counting' = [counting EXCEPT ![w].pc = "create"]
    /\ UNCHANGED <<limiterVars, detectorVars, pipelineVars, analyzed, clientIP, running, accounts>>

\* s.repo.Submission().Create in the request of worker w: one INSERT, which may
\* fail and then ends Submit
WorkerCreate(w, ok) ==
    /\ counting[w].pc = "create"
    /\ IF ok
       THEN /\ submissions' = Append(submissions,
                                     NewSubmission(form, DataWith(Absent),
                                                   MetaWith(Absent),
                                                   Len(submissions) + 1, now))
            /\ counting' = [counting EXCEPT ![w].pc = "count"]
       ELSE /\ submissions' = submissions
            /\ counting' = [counting EXCEPT ![w].pc = "failed"]
    /\ UNCHANGED <<form, submissionCount, onNewSubmission, req, tasks, before, notified>>
    /\ UNCHANGED <<limiterVars, detectorVars, analyzed, clientIP, running, accounts>>

\* A variant of WorkerIncrement: the application reads the counter and writes
\* it back plus one, in two steps
WorkerIncrement_ReadModifyWrite(w, ok) ==
    /\ \/ /\ counting[w].pc = "count"
          /\ counting' = [counting EXCEPT ![w].pc = "write", ![w].read = submissionCount]
          /\ UNCHANGED submissionCount
       \/ /\ counting[w].pc = "write"
          /\ submissionCount' = IF ok THEN counting[w].read + 1 ELSE submissionCount
          /\ counting' = [counting EXCEPT ![w].pc = "done", ![w].counted = ok,
                             ![w].racing = Cardinality({v \in Workers \ {w} :
                                              counting[v].pc \in {"count", "write"}})]
    /\ UNCHANGED <<form, submissions, onNewSubmission, req, tasks, before, notified>>
    /\ UNCHANGED <<limiterVars, detectorVars, analyzed, clientIP, running, accounts>>

\* IncrementSubmissionCount in the request of worker w: the single statement
\* UPDATE forms SET submission_count = submission_count + 1, which may fail; the
\* callback is not set, so Submit returns right after it
WorkerIncrement(w, ok) ==
    /\ counting[w].pc = "count"
    /\ submissionCount' = IF ok THEN submissionCount + 1 ELSE submissionCount
    /\ counting' = [counting EXCEPT ![w].pc = "done", ![w].counted = ok,
                       ![w].racing = Cardinality({v \in Workers \ {w} :
                                        counting[v].pc = "count"})]
    /\ UNCHANGED <<form, submissions, onNewSubmission, req, tasks, before, notified>>
    /\ UNCHANGED <<limiterVars, detectorVars, analyzed, clientIP, running, accounts>>

CounterInit ==
    /\ now = 0
    /\ NewRateLimiter
    /\ admitLog = <<>>
    /\ lastCall = NoCall
    /\ form \in {r \in FormRows : /\ r.status = FormStatusActive
                                  /\ r.accessMode \in {AccessModePublic, ""}
                                  /\ r.notifyEmails = <<>>
                                  /\ r.webhookURL = ""}
    /\ submissionCount = 0
    /\ submissions = <<>>
    /\ onNewSubmission = FALSE
    /\ req = IdleReq
    /\ tasks = [i \in IDs |-> NoTask]
    /\ before = [submissions |-> <<>>, submissionCount |-> 0, notified |-> <<>>]
    /\ notified = <<>>
    /\ rateLimits = [k \in Keys |-> <<>>]
    /\ CallsIdle

CounterNext ==
    \/ \E w \in Workers : WorkerAdmit(w)
    \/ \E w \in Workers, ok \in BOOLEAN : WorkerCreate(w, ok)
    \/ \E w \in Workers, ok \in BOOLEAN : WorkerIncrement(w, ok)

\* Several requests to one endpoint inside Submit at the same time, each
\* statement of the store being one step
CounterSpec == CounterInit /\ [][CounterNext]_vars

\* The requests whose increment has succeeded
Counted == {w \in Workers : counting[w].counted}

\* C16: under every interleaving of the concurrent admitted requests the
\* counter of the endpoint has grown by exactly the number of increments that
\* succeeded; when all N increments have succeeded it has grown by N.
C16_NoLostUpdate ==
    /\ submissionCount = Cardinality(Counted)
    /\ (\A w \in Workers : counting[w].pc = "done" /\ counting[w].counted)
          => submissionCount = Concurrent

\* All requests have incremented, and one did so while the others were at
\* their increment too
C16_Witness ==
    /\ \A w \in Workers : counting[w].pc = "done" /\ counting[w].counted
    /\ \E w \in Workers : counting[w].racing = Concurrent - 1
    /\ submissionCount = Concurrent
    /\ Len(submissions) = Concurrent


\* ------------------------------------------------------------------------
\* request.GetClientIP
\* ------------------------------------------------------------------------

S_1234 == <<"1", ".", "2", ".", "3", ".", "4">>

S_2222 == <<"2", ".", "2", ".", "2", ".", "2">>

S_3333 == <<"3", ".", "3", ".", "3", ".", "3">>

S_5678 == <<"5", ".", "6", ".", "7", ".", "8">>

S_9999 == <<"9", ".", "9", ".", "9", ".", "9">>

S_remoteV4 == <<"1", "0", ".", "0", ".", "0", ".", "7">>

S_port == <<":", "8", "0", "8", "0">>

S_loopbackV6 == <<":", ":", "1">>

\* strings.Split(s, sep) for a separator of one character
RECURSIVE SplitAt(_, _, _, _)
SplitAt(s, sep, i, cur) ==
    IF i > Len(s) THEN <<cur>>
    ELSE IF s[i] = sep THEN <<cur>> \o SplitAt(s, sep, i + 1, <<>>)
    ELSE SplitAt(s, sep, i + 1, Append(cur, s[i]))

\* strings.TrimSpace(s)
RECURSIVE TrimSpace(_)
TrimSpace(s) ==
    IF s = <<>> THEN s
    ELSE IF s[1] = S_space THEN TrimSpace(Tail(s))
    ELSE IF s[Len(s)] = S_space THEN TrimSpace(SubSeq(s, 1, Len(s) - 1))
    ELSE s

\* strings.LastIndex(s, c) for one character, counted from 1; 0 for Go's -1
LastIndex(s, c) ==
    IF \E i \in DOMAIN s : s[i] = c
    THEN CHOOSE i \in DOMAIN s : s[i] = c /\ \A j \in DOMAIN s : s[j] = c => j <= i
    ELSE 0

\* GetClientIP, the fallback: r.RemoteAddr without its port. The port goes when
\* the last colon follows a closing bracket, or is the only colon
StripPort(ip) ==
    LET colonIdx   == LastIndex(ip, ":")
        bracketIdx == LastIndex(ip, "]")
    IN  IF colonIdx = 0 THEN ip
        ELSE IF bracketIdx # 0 /\ bracketIdx < colonIdx THEN SubSeq(ip, 1, colonIdx - 1)
        ELSE IF Count(ip, <<":">>) = 1 THEN SubSeq(ip, 1, colonIdx - 1)
        ELSE ip

\* strings.TrimSpace(strings.Split(xff, ",")[0])
FirstForwarded(xff) == TrimSpace(SplitAt(xff, ",", 1, <<>>)[1])

\* GetClientIP: r holds the four headers as Header.Get returns them ("" when
\* the header is missing) and the remote address
GetClientIP(r) ==
    IF r.cfConnectingIP # <<>> THEN r.cfConnectingIP
    ELSE IF r.trueClientIP # <<>> THEN r.trueClientIP
    ELSE IF r.xRealIP # <<>> THEN r.xRealIP
    ELSE IF r.xForwardedFor # <<>> /\ Len(SplitAt(r.xForwardedFor, ",", 1, <<>>)) > 0
         THEN FirstForwarded(r.xForwardedFor)
    ELSE StripPort(r.remoteAddr)

\* The requests GetClientIP is called with
RequestLines ==
    [cfConnectingIP : {<<>>, S_1234},
     trueClientIP   : {<<>>, S_2222},
     xRealIP        : {<<>>, S_3333},
     xForwardedFor  : {<<>>, S_5678, S_5678 \o <<",", " ">> \o S_9999,
                       <<" ">> \o S_5678 \o <<" ", ",">> \o S_9999,
                       <<",">> \o S_5678, <<" ", ",", " ">> \o S_9999},
     remoteAddr     : {S_remoteV4 \o S_port, S_remoteV4,
                       <<"[">> \o S_loopbackV6 \o <<"]">> \o S_port, S_loopbackV6}]

\* The call of GetClientIP on the request at hand
CallGetClientIP ==
    /\ ~clientIP.called
    /\ clientIP # NoRequestLine
    /\ clientIP' = [clientIP EXCEPT !.called = TRUE, !.result = GetClientIP(clientIP.r)]
    /\ UNCHANGED <<limiterVars, detectorVars, pipelineVars, analyzed, counting, running, accounts>>

ClientIPInit ==
    /\ now = 0
    /\ NewRateLimiter
    /\ admitLog = <<>>
    /\ lastCall = NoCall
    /\ PipelineIdle
    /\ analyzed = NoAnalysis
    /\ counting = [w \in Workers |-> IdleWorker]
    /\ clientIP \in {[called |-> FALSE, r |-> r, result |-> <<>>] : r \in RequestLines}
    /\ running = [w \in Workers |-> Resting]
    /\ accounts = NoAccounts

ClientIPNext == CallGetClientIP

\* GetClientIP applied to one request
ClientIPSpec == ClientIPInit /\ [][ClientIPNext]_vars

\* C20: GetClientIP returns the first value that is not empty among the
\* CF-Connecting-IP header, the True-Client-IP header, the X-Real-IP header and
\* the first comma-separated entry of X-Forwarded-For, and when all of these
\* are empty the remote address without its port.
C20_FirstNonEmptySource ==
    clientIP.called =>
        LET r   == clientIP.r
            xff == FirstForwarded(r.xForwardedFor)
            got == clientIP.result
        IN  /\ r.cfConnectingIP # <<>> => got = r.cfConnectingIP
            /\ (r.cfConnectingIP = <<>> /\ r.trueClientIP # <<>>) => got = r.trueClientIP
            /\ (r.cfConnectingIP = <<>> /\ r.trueClientIP = <<>> /\ r.xRealIP # <<>>)
                  => got = r.xRealIP
            /\ (r.cfConnectingIP = <<>> /\ r.trueClientIP = <<>> /\ r.xRealIP = <<>>
                  /\ xff # <<>>) => got = xff
            /\ (r.cfConnectingIP = <<>> /\ r.trueClientIP = <<>> /\ r.xRealIP = <<>>
                  /\ xff = <<>>) => got = StripPort(r.remoteAddr)

\* ------------------------------------------------------------------------
\* The detector's rate tracker and a RateLimiter, fed the same submissions
\* ------------------------------------------------------------------------

\* The most submissions fed to the two
MaxFed == 4

\* Nothing was fed yet
NothingFed == [called |-> FALSE, limited |-> FALSE, fed |-> <<>>]

\* One submission of the observed source at the current time: allow(ip) on the
\* RateLimiter, and on the detector the test of Analyze's rule 4 followed by
\* RecordSubmission(ip)
FeedBoth ==
    LET g == GetVisitor(vheap, visitors, Observed, now)
        d == TakeToken(g.heap, g.v)
    IN  /\ Len(analyzed.fed) < MaxFed
        /\ vheap' = d.heap
        /\ visitors' = g.visitors
        /\ admitLog' = IF d.ok THEN Append(admitLog, now) ELSE admitLog
        /\ lastCall' = [time |-> now, ok |-> d.ok]
        /\ analyzed' = [called |-> TRUE,
                        limited |-> IsRateLimited(rateLimits, Observed, now),
                        fed |-> Append(analyzed.fed, now)]
        /\ rateLimits' = RecordSubmission(rateLimits, Observed, now)
        /\ UNCHANGED <<now, nextSweep, pipelineVars, counting, clientIP, running, accounts>>

FedInit ==
    /\ now = 0
    /\ NewRateLimiter
    /\ admitLog = <<>>
    /\ lastCall = NoCall
    /\ PipelineIdle
    /\ analyzed = NothingFed
    /\ counting = [w \in Workers |-> IdleWorker]
    /\ clientIP = NoRequestLine
    /\ running = [w \in Workers |-> Resting]
    /\ accounts = NoAccounts

FedNext ==
    \/ FeedBoth
    \/ Cleanup
    \/ Tick

\* A RateLimiter and a detector with the same capacity and window, receiving
\* the same submissions of one source
FedSpec == FedInit /\ [][FedNext]_vars

\* The submissions fed before the last one and less than a window before it
FedInWindow ==
    LET n == Len(analyzed.fed)
    IN  {i \in 1..(n - 1) : analyzed.fed[i] > analyzed.fed[n] - RateLimitWindow}

\* C23 as stated: for every timed sequence of submissions of one source, with
\* equal capacity and window, the tracker reports the source as rate-limited
\* for a submission exactly when the RateLimiter rejects it.
C23_TrackerAgreesWithBucket ==
    analyzed.called => (analyzed.limited <=> ~lastCall.ok)

\* C23 as amended: the tracker is a list of times and not a token bucket. It
\* reports a submission as rate-limited exactly when at least RateLimitMax of
\* the earlier submissions are less than a window old, admitted or not, while
\* the RateLimiter rejects only when Limit calls were admitted in the window
\* that started at the visitor's last refill and that window has not passed.
C23_TrackerIsSlidingList ==
    analyzed.called =>
        /\ analyzed.limited <=> Cardinality(FedInWindow) >= RateLimitMax
        /\ (visitors[Observed] # 0 /\ ~lastCall.ok) =>
              /\ AdmittedSinceReset = Limit
              /\ lastCall.time - vheap[visitors[Observed]].lastReset <= Window

\* C23 witness: the tracker reports a submission that the bucket admits
C23_Witness ==
    /\ analyzed.called
    /\ analyzed.limited
    /\ lastCall.ok

\* C23 witness of the other disagreement: the bucket rejects a submission that
\* the tracker lets pass
C23_BucketRejectsAlone ==
    /\ analyzed.called
    /\ ~analyzed.limited
    /\ ~lastCall.ok

\* ------------------------------------------------------------------------
\* Concurrent calls of RateLimiter.allow and the cleanup loop
\* ------------------------------------------------------------------------

\* The goroutines that call allow at the same time
Callers == 1..Racing

\* The visitors that the map or a goroutine's local variable v refers to stay
\* allocated; the others are collected
Collect(h, vis, r) ==
    [a \in Addrs |->
        IF \/ \E k \in Keys : vis[k] = a
           \/ \E w \in Callers : r[w].pc = "take" /\ r[w].v = a
        THEN h[a] ELSE NoVisitor]

\* allow(ip) in goroutine w, first critical section: v := rl.getVisitor(ip).
\* For the observed key admitLog restarts when the map's visitor is created or
\* refilled, so that it lists the admissions since then
AllowGetVisitor(w, ip) ==
    LET g == GetVisitor(vheap, visitors, ip, now)
    IN  /\ running[w].pc = "idle"
        /\ vheap' = g.heap
        /\ visitors' = g.visitors
        /\ running' = [running EXCEPT ![w] = [pc |-> "take", ip |-> ip, v |-> g.v]]
        /\ admitLog' = IF ip = Observed /\ g.heap[g.v] # vheap[g.v] THEN <<>> ELSE admitLog
        /\ UNCHANGED <<now, nextSweep, lastCall>>
        /\ UNCHANGED <<detectorVars, pipelineVars, analyzed, counting, clientIP, accounts>>

\* allow(ip) in goroutine w, second critical section: the token is taken from
\* the visitor that v points to, whether it is still in the map or not
AllowTakeToken(w) ==
    LET d == TakeToken(vheap, running[w].v)
        r == [running EXCEPT ![w] = Resting]
    IN  /\ running[w].pc = "take"
        /\ vheap' = Collect(d.heap, visitors, r)
        /\ running' = r
        /\ admitLog' = IF running[w].ip = Observed /\ d.ok
                       THEN Append(admitLog, now) ELSE admitLog
        /\ UNCHANGED <<now, visitors, nextSweep, lastCall>>
        /\ UNCHANGED <<detectorVars, pipelineVars, analyzed, counting, clientIP, accounts>>

\* One pass of the cleanup loop between the critical sections of the callers
Sweep ==
    /\ now >= nextSweep
    /\ LET gone == Stale(vheap, visitors, now)
           vis  == [k \in Keys |-> IF k \in gone THEN 0 ELSE visitors[k]]
       IN  /\ visitors' = vis
           /\ vheap' = Collect(vheap, vis, running)
    /\ nextSweep' = now + SweepInterval
    /\ UNCHANGED <<now, admitLog, lastCall>>
    /\ UNCHANGED <<detectorVars, pipelineVars, callVars>>

SharedLimiterNext ==
    \/ \E w \in Callers, ip \in Keys : AllowGetVisitor(w, ip)
    \/ \E w \in Callers : AllowTakeToken(w)
    \/ Sweep
    \/ Tick

\* One RateLimiter called by several goroutines, each critical section and
\* each pass of the cleanup loop being one step
SharedLimiterSpec == LimiterInit /\ [][SharedLimiterNext]_vars

\* C27: under every interleaving of concurrent allow calls and sweeps, each
\* visitor's token count stays within 0..Limit, and the number of allow(key)
\* calls admitted between two consecutive refills of the key never exceeds
\* Limit.
C27_QuotaUnderInterleaving ==
    /\ \A a \in Addrs : vheap[a] # NoVisitor => vheap[a].tokens \in 0..Limit
    /\ Len(admitLog) <= Limit

\* The token counts alone stay within 0..Limit under every interleaving
TokensInRange ==
    \A a \in Addrs : vheap[a] # NoVisitor => vheap[a].tokens \in 0..Limit

\* ------------------------------------------------------------------------
\* Concurrent requests of one source in HandleSubmit's spam detection
\* ------------------------------------------------------------------------

\* HandleSubmit in goroutine w: h.spamDetector.Analyze(serverMeta.IP, ...), whose
\* rule 4 reads the tracker under its read lock
RequestAnalyze(w) ==
    /\ running[w].pc = "idle"
    /\ running' = [running EXCEPT ![w] =
                      [pc |-> "record", at |-> now,
                       limited |-> IsRateLimited(rateLimits, Observed, now)]]
    /\ UNCHANGED <<limiterVars, detectorVars, pipelineVars, analyzed, counting, clientIP, accounts>>

\* HandleSubmit in goroutine w: h.spamDetector.RecordSubmission(serverMeta.IP),
\* under the tracker's write lock
RequestRecord(w) ==
    /\ running[w].pc = "record"
    /\ rateLimits' = RecordSubmission(rateLimits, Observed, now)
    /\ running' = [running EXCEPT ![w].pc = "scored"]
    /\ UNCHANGED <<limiterVars, pipelineVars, analyzed, counting, clientIP, accounts>>

ScoringNext ==
    \/ \E w \in Workers : RequestAnalyze(w)
    \/ \E w \in Workers : RequestRecord(w)
    \/ DetectorTick

\* Several requests of the observed source in HandleSubmit at the same time,
\* each call on the detector being one step
ScoringSpec == LimiterInit /\ [][ScoringNext]_vars

\* The requests analyzed in the interval [a, a + RateLimitWindow) that were
\* scored without the flag rate_limited
UnflaggedIn(a) ==
    {w \in Workers : /\ running[w].pc # "idle"
                     /\ ~running[w].limited
                     /\ a <= running[w].at
                     /\ running[w].at < a + RateLimitWindow}

\* C28: under every interleaving of concurrent HandleSubmit requests of one
\* source within one rate window, at most RateLimitMax of them are scored
\* without the flag rate_limited.
C28_QuotaUnderInterleaving ==
    \A a \in 0..MaxTime : Cardinality(UnflaggedIn(a)) <= RateLimitMax

\* ------------------------------------------------------------------------
\* AuthService.ResetPassword
\* ------------------------------------------------------------------------

ErrInvalidResetToken == "invalid or expired reset token"

ErrPasswordTooShort == "password must be at least 8 characters"

\* The time the issued token expires at (ExpiresAt)
TokenExpiry == 2

S_hunter22 == <<"h", "u", "n", "t", "e", "r", "2", "2">>

\* The new passwords tried: one of 8 characters and one that is too short
NewPasswords == {S_hunter22, S_abc123}

\* The tokens tried: the one issued to the user and one that was never issued
ResetTokens == {"issued", "forged"}

\* bcrypt.GenerateFromPassword, as a term of the password
Bcrypt(password) == <<"bcrypt:">> \o password

\* A call of ResetPassword, made at time t, that has returned err; changed: it
\* has written the user's password
ResetReturned(err, changed, t) == [pc |-> "done", err |-> err, changed |-> changed, at |-> t]

\* ResetPassword in goroutine w, up to the checks of the token: GetByToken, the
\* expiry and used_at as that SELECT returned it
ResetGetByToken(w, token, newPassword) ==
    /\ running[w].pc = "idle"
    /\ running' = [running EXCEPT ![w] =
          IF \/ token # "issued"
             \/ now > TokenExpiry
             \/ accounts.usedAt # -1
          THEN ResetReturned(ErrInvalidResetToken, FALSE, now)
          ELSE [pc |-> "update", newPassword |-> newPassword, at |-> now]]
    /\ UNCHANGED <<limiterVars, detectorVars, pipelineVars, analyzed, counting, clientIP,
                   accounts>>

\* ResetPassword in goroutine w: the user is read, SetPassword hashes the new
\* password, and User().Update writes the row, which may fail
ResetUpdateUser(w, ok) ==
    /\ running[w].pc = "update"
    /\ IF Len(running[w].newPassword) < 8
       THEN /\ running' = [running EXCEPT ![w] =
                   ResetReturned(ErrPasswordTooShort, FALSE, running[w].at)]
            /\ UNCHANGED accounts
       ELSE IF ~ok
       THEN /\ running' = [running EXCEPT ![w] =
                   ResetReturned("update user", FALSE, running[w].at)]
            /\ UNCHANGED accounts
       ELSE /\ running' = [running EXCEPT ![w].pc = "mark"]
            /\ accounts' = [accounts EXCEPT
                               !.passwordHash = Bcrypt(running[w].newPassword),
                               !.changes = @ + 1]
    /\ UNCHANGED <<limiterVars, detectorVars, pipelineVars, analyzed, counting, clientIP>>

\* ResetPassword in goroutine w: MarkAsUsed, whose error is the result
ResetMarkAsUsed(w, ok) ==
    /\ running[w].pc = "mark"
    /\ accounts' = IF ok THEN [accounts EXCEPT !.usedAt = now] ELSE accounts
    /\ running' = [running EXCEPT ![w] =
          ResetReturned(IF ok THEN "" ELSE "mark as used", TRUE, running[w].at)]
    /\ UNCHANGED <<limiterVars, detectorVars, pipelineVars, analyzed, counting, clientIP>>

ResetNext ==
    \/ \E w \in Callers, token \in ResetTokens, newPassword \in NewPasswords :
          ResetGetByToken(w, token, newPassword)
    \/ \E w \in Callers, ok \in BOOLEAN : ResetUpdateUser(w, ok)
    \/ \E w \in Callers, ok \in BOOLEAN : ResetMarkAsUsed(w, ok)
    \/ Tick

\* One issued reset token and the calls of ResetPassword made with it, each
\* statement of the store being one step
ResetSpec == LimiterInit /\ [][ResetNext]_vars

\* The calls of ResetPassword that have returned
ResetDone == {w \in Callers : running[w].pc = "done"}

\* C30: a password reset token changes a password at most once. Over any
\* sequence or interleaving of ResetPassword calls with the same token at most
\* one call succeeds and every other call returns ErrInvalidResetToken (or the
\* error of its own password or of the store), and a call made after the
\* token's expiry time never changes the password.
C30_TokenChangesPasswordOnce ==
    /\ accounts.changes <= 1
    /\ Cardinality({w \in ResetDone : running[w].err = ""}) <= 1
    /\ \A w \in ResetDone :
          running[w].err \in {"", ErrInvalidResetToken, ErrPasswordTooShort,
                              "update user", "mark as used"}
    /\ \A w \in ResetDone : running[w].at > TokenExpiry => ~running[w].changed

\* A call made after the token's expiry time never changes the password
ExpiredTokenRejected ==
    \A w \in Callers :
        (running[w].pc # "idle" /\ running[w].at > TokenExpiry)
            => running[w].pc = "done" /\ running[w].err = ErrInvalidResetToken

\* No call fails in the store
StoreWorked ==
    \A w \in ResetDone : running[w].err \notin {"update user", "mark as used"}

\* With a store that works, two calls have still both succeeded
C30_BothSucceed ==
    StoreWorked /\ Cardinality({w \in ResetDone : running[w].err = ""}) > 1

====
